---- MODULE Spec2Model ----
(***************************************************************************)
(* A model of the dragon overlay (src/src/main.cpp): the scene of screen   *)
(* objects (LineObject, Signature, Image, AnimatedGif), the event dispatch *)
(* of SDL_AppEvent, the playback driver of SDL_AppIterate and the GIF      *)
(* decode step AnimatedGif::render_frame.                                  *)
(*                                                                         *)
(* Number representation.  The program computes in float; the model        *)
(* computes in fixed point: coordinates are whole pixels, scale is in      *)
(* thousandths (1000 = 1.0), rotation in whole degrees, opacity in 255ths  *)
(* (255 = 1.0), sines and cosines in thousandths.  A pixel is the tuple    *)
(* <<r, g, b, a>>; the Uint32 value 0 is <<0, 0, 0, 0>>.  Pointers are     *)
(* indices: 0 is nullptr, a ScreenObject* is its index in screen_objects,  *)
(* an SDL_Texture* is a texture id.                                        *)
(***************************************************************************)
EXTENDS Integers, Sequences, FiniteSets, TLC

VARIABLES
    screen_objects,   \* AppContext::screen_objects
    mouse_capture,    \* AppContext::mouse_capture (index, 0 = nullptr)
    dragging_origin,  \* AppContext::dragging_origin
    dragging_offset,  \* AppContext::dragging_offset
    layout_mode,      \* AppContext::layout_mode
    hidden,           \* AppContext::hidden
    alpha,            \* AppContext::alpha, in 255ths
    is_virgin,        \* AppContext::is_virgin
    needs_redraw,     \* AppContext::needs_redraw
    have_animations,  \* AppContext::have_animations
    idle_ticks,       \* AppContext::idle_ticks
    idle_delay_ms,    \* AppContext::idle_delay_ms
    app_quit,         \* AppContext::app_quit
    ticks,            \* the clock read by SDL_GetTicks()
    textures,         \* the set of live SDL_Texture ids
    ub,               \* the undefined or faulting operations executed so far
    adjusts,          \* how many wheel and arrow-key events were delivered
    last,             \* what the last callback did (for stating the claims)
    event_queue,      \* the SDL event queue: the events posted and not yet delivered
    settings_file     \* the settings file as settings_write has left it

vars == <<screen_objects, mouse_capture, dragging_origin, dragging_offset,
          layout_mode, hidden, alpha, is_virgin, needs_redraw, have_animations,
          idle_ticks, idle_delay_ms, app_quit, ticks, textures, ub, adjusts, last,
          event_queue, settings_file>>

-----------------------------------------------------------------------------
(* Program constants *)

UPDATE_VIEW_CHANGED == 1
UPDATE_SETTINGS_CHANGED == 2

\* gif_lib.h values used by AnimatedGif
DISPOSAL_UNSPECIFIED == 0
DISPOSE_DO_NOT == 1
DISPOSE_BACKGROUND == 2
NO_TRANSPARENT_COLOR == -1

\* alpha > 50 is opaque for Image::hit_test
ALPHA_THRESHOLD == 50

\* Stands for 2^64 in the Uint64 arithmetic of SDL_AppIterate: TLC's integers
\* are 32 bits wide, and every value at or above any delay acts alike there.
TwoPow64 == 1073741824

-----------------------------------------------------------------------------
(* Bounds of the model *)

\* the clock stops advancing at MaxTicks
MaxTicks == 60
\* at most MaxAdjust wheel and arrow-key events are delivered
MaxAdjust == 1

\* the most events that are pending in the SDL event queue
MaxQueue == 3

-----------------------------------------------------------------------------
(* Arithmetic helpers *)

Abs(n) == IF n < 0 THEN -n ELSE n

Min(a, b) == IF a < b THEN a ELSE b

Max(a, b) == IF a > b THEN a ELSE b

\* n / d rounded to the nearest integer (d > 0): the float result, stored
RoundDiv(n, d) == (2 * n + d) \div (2 * d)

\* (int) conversion of n / d: truncation toward zero (d > 0)
TruncDiv(n, d) == IF n >= 0 THEN n \div d ELSE -((-n) \div d)

SinTable == <<0, 87, 174, 259, 342, 423, 500, 574, 643, 707,
              766, 819, 866, 906, 940, 966, 985, 996, 1000>>

\* sin(deg) * 1000 for deg a multiple of 5
Sin1000(deg) ==
    LET d == deg % 360 IN
    IF d <= 90 THEN SinTable[(d \div 5) + 1]
    ELSE IF d <= 180 THEN SinTable[((180 - d) \div 5) + 1]
    ELSE IF d <= 270 THEN -SinTable[((d - 180) \div 5) + 1]
    ELSE -SinTable[((360 - d) \div 5) + 1]

Cos1000(deg) == Sin1000(deg + 90)

\* ScreenObject::rotate_point, result in thousandths of a pixel
rotate_point1000(ct, pt, phi_deg) ==
    LET dx == pt[1] - ct[1]
        dy == pt[2] - ct[2]
        cphi == Cos1000(phi_deg)
        sphi == Sin1000(phi_deg)
    IN  <<ct[1] * 1000 + dx * cphi - dy * sphi,
          ct[2] * 1000 + dx * sphi + dy * cphi>>

\* ScreenObject::rotate_point, result stored back as a coordinate
rotate_point(ct, pt, phi_deg) ==
    LET r == rotate_point1000(ct, pt, phi_deg)
    IN  <<RoundDiv(r[1], 1000), RoundDiv(r[2], 1000)>>

-----------------------------------------------------------------------------
(* Surfaces, textures *)

\* an SDL_Surface* that is nullptr
NullSurface == [null |-> TRUE, w |-> 0, h |-> 0, px |-> <<>>]

ZeroPixel == <<0, 0, 0, 0>>

\* SDL_CreateSurface followed by SDL_ClearSurface(surface, 0, 0, 0, 0)
SDL_CreateSurface(w, h) ==
    [null |-> FALSE, w |-> w, h |-> h, px |-> [k \in 1..(w * h) |-> ZeroPixel]]

\* a pixel read that takes the nearest pixel of the surface instead of failing
SDL_ReadSurfacePixel_clamped(surface, x, y) ==
    IF surface.null THEN -1
    ELSE surface.px[Max(0, Min(y, surface.h - 1)) * surface.w
                    + Max(0, Min(x, surface.w - 1)) + 1][4]

\* SDL_ReadSurfacePixel(surface, x, y, ..., &alpha): the alpha read, -1 on failure
SDL_ReadSurfacePixel(surface, x, y) ==
    IF surface.null \/ x < 0 \/ y < 0 \/ x >= surface.w \/ y >= surface.h
    THEN -1
    ELSE surface.px[y * surface.w + x + 1][4]

\* SDL_FillSurfaceRect(surface, &rect, color): the rectangle is clipped to the surface
SDL_FillSurfaceRect(surface, rect, color) ==
    [surface EXCEPT !.px =
        [k \in 1..(surface.w * surface.h) |->
            LET x == (k - 1) % surface.w
                y == (k - 1) \div surface.w
            IN  IF /\ x >= rect.x /\ x < rect.x + rect.w
                   /\ y >= rect.y /\ y < rect.y + rect.h
                THEN color ELSE surface.px[k]]]

\* SDL_CreateTextureFromSurface: a texture id that is not live (an address may be reused)
SDL_CreateTexture(texs) ==
    CHOOSE t \in 1..(Cardinality(texs) + 1) :
        t \notin texs /\ \A u \in 1..(t - 1) : u \in texs

\* the fields of the AppContext a handler reads and writes, with the texture heap
Ctx ==
    [objs |-> screen_objects, layout_mode |-> layout_mode,
     mouse_capture |-> mouse_capture, dragging_origin |-> dragging_origin,
     dragging_offset |-> dragging_offset, is_virgin |-> is_virgin,
     textures |-> textures, ub |-> ub]

\* SDL_DestroyTexture(t): nullptr is ignored; a texture that is not live is a double destroy
SDL_DestroyTexture(c, t) ==
    IF t = 0 THEN c
    ELSE IF t \in c.textures THEN [c EXCEPT !.textures = @ \ {t}]
    ELSE [c EXCEPT !.ub = @ \cup {"texture_destroyed_twice"}]

-----------------------------------------------------------------------------
(* valid() and hit_test() *)

\* a validity that looks at the resource alone and not at the deleted flag
valid_despite_deleted(o) ==
    CASE o.kind = "Lines" -> TRUE
      [] o.kind = "Signature" -> o.texture # 0
      [] o.kind = "Image" -> o.texture # 0
      [] o.kind = "AnimatedGif" -> ~o.surface.null

\* LineObject::valid, Signature::valid, Image::valid, AnimatedGif::valid
valid(o) ==
    CASE o.kind = "Lines" -> TRUE
      [] o.kind = "Signature" -> o.texture # 0 /\ ~o.deleted
      [] o.kind = "Image" -> o.texture # 0 /\ ~o.deleted
      [] o.kind = "AnimatedGif" -> ~o.surface.null /\ ~o.deleted

\* the SDL_FRect rc of hit_test, in thousandths of a pixel
hit_rect1000(o) ==
    [x |-> o.pos[1] * 1000 - o.extent.x * o.scale,
     y |-> o.pos[2] * 1000 - o.extent.y * o.scale,
     w |-> o.extent.w * o.scale,
     h |-> o.extent.h * o.scale]

\* hit_test that forgets to turn the point back by the object's rotation
hit_point1000_unrotated(o, pt) == <<pt[1] * 1000, pt[2] * 1000>>

\* the point of hit_test after `if (rotate != 0.0) rotate_point(pos, &pt, -rotate)`
hit_point1000(o, pt) ==
    IF o.rotate # 0 THEN rotate_point1000(o.pos, pt, -o.rotate)
    ELSE <<pt[1] * 1000, pt[2] * 1000>>

\* SDL_PointInRectFloat: both ends of each side are inside
SDL_PointInRectFloat(p, r) ==
    /\ p[1] >= r.x /\ p[1] <= r.x + r.w
    /\ p[2] >= r.y /\ p[2] <= r.y + r.h

Signature_hit_test(o, pt) ==
    IF ~valid(o) THEN FALSE
    ELSE SDL_PointInRectFloat(hit_point1000(o, pt), hit_rect1000(o))

Image_hit_test(o, pt) ==
    IF ~valid(o) THEN FALSE
    ELSE
        LET rc == hit_rect1000(o)
            p == hit_point1000(o, pt)
        IN  IF SDL_PointInRectFloat(p, rc)
            THEN LET xoff0 == TruncDiv(p[1] - rc.x, o.scale)
                     yoff == TruncDiv(p[2] - rc.y, o.scale)
                     xoff == IF o.flip_horizontal
                             THEN o.extent.w - xoff0 - 1 ELSE xoff0
                     a == SDL_ReadSurfacePixel(o.surface, xoff, yoff)
                 IN  a # -1 /\ a > ALPHA_THRESHOLD
            ELSE FALSE

\* the virtual hit_test of each class
hit_test(o, pt) ==
    CASE o.kind = "Lines" -> FALSE
      [] o.kind = "Signature" -> Signature_hit_test(o, pt)
      [] o.kind \in {"Image", "AnimatedGif"} -> Image_hit_test(o, pt)

-----------------------------------------------------------------------------
(* Events.  An event is a record
     [type, x, y, wheel_y, key, mods, cursor]
   x, y: the pointer position of a mouse event; wheel_y: the wheel delta;
   key: the key of a key event; mods: what SDL_GetModState() returns while the
   event is handled; cursor: what SDL_GetGlobalMouseState() returns then.   *)

GetRValue(color) == color % 256

GetGValue(color) == (color \div 256) % 256

GetBValue(color) == (color \div 65536) % 256

RGB(r, g, b) == r + g * 256 + b * 65536

ColorKeys == <<"r", "g", "b", "k", "s", "w">>

ColorMap == <<RGB(255, 0, 0), RGB(0, 255, 0), RGB(0, 0, 255),
              RGB(0, 0, 0), RGB(0, 0, 0), RGB(255, 255, 255)>>

\* color_from_key: [ok, color]
color_from_key(key) ==
    IF \E k \in 1..Len(ColorKeys) : ColorKeys[k] = key
    THEN LET k == CHOOSE k \in 1..Len(ColorKeys) : ColorKeys[k] = key
             color == ColorMap[k]
         IN  [ok |-> TRUE,
              color |-> RGB(GetRValue(color), GetGValue(color), GetBValue(color))]
    ELSE [ok |-> FALSE, color |-> 0]

\* what handle_event returns: the bool, needs_update, and the state it leaves
NotHandled(c) == [handled |-> FALSE, needs_update |-> 0, c |-> c]

Handled(c, n) == [handled |-> TRUE, needs_update |-> n, c |-> c]

\* powf(1.1f, wheel.y) in thousandths, for one wheel notch
powf1000(wheel_y) == IF wheel_y > 0 THEN 1100 ELSE IF wheel_y < 0 THEN 909 ELSE 1000

\* a wheel branch that fades the object on every notch and does not clamp
wheel_transform_unclamped(o, ev) ==
    [o EXCEPT !.alpha = IF ev.wheel_y < 0 THEN @ - 5 ELSE @ + 5]

\* the wheel branch of Signature::handle_event and Image::handle_event on a hit
wheel_transform(o, ev) ==
    LET pt == <<ev.x, ev.y>> IN
    IF "CTRL" \in ev.mods
    THEN LET phi_delta == 5 * (IF ev.wheel_y < 0 THEN -1 ELSE 1) IN
         [o EXCEPT !.pos = rotate_point(pt, o.pos, phi_delta),
                   !.rotate = @ + phi_delta]
    ELSE IF "SHIFT" \in ev.mods
    THEN LET dScale == powf1000(ev.wheel_y) IN
         [o EXCEPT !.scale = RoundDiv(@ * dScale, 1000),
                   !.pos = <<o.pos[1] + RoundDiv((o.pos[1] - pt[1]) * (dScale - 1000), 1000),
                             o.pos[2] + RoundDiv((o.pos[2] - pt[2]) * (dScale - 1000), 1000)>>]
    ELSE [o EXCEPT !.alpha = IF ev.wheel_y < 0 THEN Max(0, @ - 5) ELSE Min(255, @ + 5)]

\* the button-down branch on a hit: start mouse capturing
begin_capture(i, pt, c) ==
    [c EXCEPT !.mouse_capture = i,
              !.dragging_origin = pt,
              !.dragging_offset = <<pt[1] - c.objs[i].pos[1], pt[2] - c.objs[i].pos[2]>>]

\* a button-up that stops capturing and leaves the object where it was
end_capture_without_commit(i, c) ==
    [c EXCEPT !.mouse_capture = 0, !.dragging_offset = <<0, 0>>]

\* the button-up branch while captured: commit the position, stop capturing
end_capture(i, c) ==
    [c EXCEPT !.objs[i].pos = <<c.dragging_origin[1] - c.dragging_offset[1],
                                c.dragging_origin[2] - c.dragging_offset[2]>>,
              !.mouse_capture = 0,
              !.dragging_offset = <<0, 0>>]

\* Signature::change_color
change_color(i, color, c) ==
    LET o == c.objs[i] IN
    IF ~valid(o) \/ o.surface.null THEN c
    ELSE LET recolored ==
                 [o.surface EXCEPT !.px =
                     [k \in DOMAIN o.surface.px |->
                         <<GetRValue(color), GetGValue(color), GetBValue(color),
                           o.surface.px[k][4]>>]]
             new_texture == SDL_CreateTexture(c.textures)
             c1 == [c EXCEPT !.textures = @ \cup {new_texture}]
             c2 == SDL_DestroyTexture(c1, o.texture)
         IN  [c2 EXCEPT !.objs[i] = [o EXCEPT !.surface = recolored,
                                              !.texture = new_texture,
                                              !.font_color = color]]

Signature_handle_event(i, ev, c) ==
    LET o == c.objs[i]
        pt == <<ev.x, ev.y>>
    IN
    IF ~c.layout_mode \/ ~valid(o) THEN NotHandled(c)
    ELSE IF ev.type = "MOUSE_WHEEL" THEN
        IF Signature_hit_test(o, pt)
        THEN Handled([c EXCEPT !.objs[i] = wheel_transform(o, ev)], UPDATE_SETTINGS_CHANGED)
        ELSE NotHandled(c)
    ELSE IF ev.type = "MOUSE_BUTTON_DOWN" THEN
        IF Signature_hit_test(o, pt)
        THEN Handled(begin_capture(i, pt, c), 0)
        ELSE NotHandled(c)
    ELSE IF ev.type = "MOUSE_BUTTON_UP" THEN
        IF c.mouse_capture = i
        THEN Handled(end_capture(i, c), UPDATE_SETTINGS_CHANGED)
        ELSE NotHandled(c)
    ELSE IF ev.type = "MOUSE_MOTION" THEN
        IF c.mouse_capture = i
        THEN Handled([c EXCEPT !.dragging_origin = pt], UPDATE_VIEW_CHANGED)
        ELSE IF c.mouse_capture = 0 /\ Signature_hit_test(o, pt)
        THEN Handled(c, 0)
        ELSE NotHandled(c)
    ELSE IF ev.type = "KEY_DOWN" THEN
        IF color_from_key(ev.key).ok THEN
            IF Signature_hit_test(o, ev.cursor)
            THEN Handled(change_color(i, color_from_key(ev.key).color, c),
                         UPDATE_SETTINGS_CHANGED)
            ELSE NotHandled(c)
        ELSE IF ev.key = "DELETE" THEN
            IF Signature_hit_test(o, ev.cursor)
            THEN Handled([c EXCEPT !.objs[i].deleted = TRUE], UPDATE_SETTINGS_CHANGED)
            ELSE NotHandled(c)
        ELSE NotHandled(c)
    ELSE NotHandled(c)

Image_handle_event(i, ev, c) ==
    LET o == c.objs[i]
        pt == <<ev.x, ev.y>>
    IN
    IF ~c.layout_mode \/ ~valid(o) THEN NotHandled(c)
    ELSE IF ev.type = "MOUSE_WHEEL" THEN
        IF Image_hit_test(o, pt)
        THEN Handled([c EXCEPT !.objs[i] = wheel_transform(o, ev)], UPDATE_SETTINGS_CHANGED)
        ELSE NotHandled(c)
    ELSE IF ev.type = "MOUSE_BUTTON_DOWN" THEN
        IF Image_hit_test(o, pt)
        THEN Handled(begin_capture(i, pt, c), 0)
        ELSE NotHandled(c)
    ELSE IF ev.type = "MOUSE_BUTTON_UP" THEN
        IF c.mouse_capture = i
        THEN Handled(end_capture(i, c), UPDATE_SETTINGS_CHANGED)
        ELSE NotHandled(c)
    ELSE IF ev.type = "MOUSE_MOTION" THEN
        IF c.mouse_capture = i
        THEN Handled([c EXCEPT !.dragging_origin = pt], UPDATE_VIEW_CHANGED)
        ELSE IF c.mouse_capture = 0 /\ Image_hit_test(o, pt)
        THEN Handled(c, 0)
        ELSE NotHandled(c)
    ELSE IF ev.type = "KEY_DOWN" THEN
        IF ev.key = "f" THEN
            IF Image_hit_test(o, ev.cursor)
            THEN Handled([c EXCEPT !.objs[i].flip_horizontal = ~@], UPDATE_SETTINGS_CHANGED)
            ELSE NotHandled(c)
        ELSE IF ev.key = "DELETE" THEN
            IF Image_hit_test(o, ev.cursor)
            THEN Handled([c EXCEPT !.objs[i].deleted = TRUE], UPDATE_SETTINGS_CHANGED)
            ELSE NotHandled(c)
        ELSE NotHandled(c)
    ELSE NotHandled(c)

-----------------------------------------------------------------------------
(* AnimatedGif.  A GIF file as giflib hands it over after DGifOpenFileName and
   DGifSlurp is a record
     [open, SWidth, SHeight, SBackGroundColor, SColorMap, SavedImages]
   a ColorMapObject is [null, ColorCount, Colors], Colors a sequence of
   <<Red, Green, Blue>>; a SavedImage is
     [Left, Top, Width, Height, ColorMap, raster_null, RasterBits, gcb]
   gcb the graphics control block [present, DelayTime, TransparentColor,
   DisposalMode].                                                           *)

NullColorMap == [null |-> TRUE, ColorCount |-> 0, Colors |-> <<>>]

\* a GifFileType* that is nullptr
NullGif ==
    [open |-> FALSE, SWidth |-> 0, SHeight |-> 0, SBackGroundColor |-> 0,
     SColorMap |-> NullColorMap, SavedImages |-> <<>>]

\* SDL_MapRGBA(format, nullptr, Red, Green, Blue, 255)
SDL_MapRGBA(rgb) == <<rgb[1], rgb[2], rgb[3], 255>>

\* the frame_info_t that AnimatedGif::init builds for one SavedImage
frame_info_of(frame) ==
    IF frame.gcb.present
    THEN [delay_ms |-> frame.gcb.DelayTime * 10,
          transparent_color_index |-> frame.gcb.TransparentColor,
          disposal_mode |-> frame.gcb.DisposalMode,
          texture_outdated |-> TRUE,
          texture |-> 0]
    ELSE [delay_ms |-> 100,
          transparent_color_index |-> NO_TRANSPARENT_COLOR,
          disposal_mode |-> DISPOSAL_UNSPECIFIED,
          texture_outdated |-> TRUE,
          texture |-> 0]

\* a disposal step that clears the whole canvas, whatever the rectangle of the
\* previous frame
dispose_whole_canvas(o, color_map, garbage) ==
    LET whole == [x |-> 0, y |-> 0, w |-> o.surface.w, h |-> o.surface.h] IN
    IF o.recent_disposal = DISPOSE_BACKGROUND
    THEN [surface |-> SDL_FillSurfaceRect(o.surface, whole, ZeroPixel),
          fill |-> ZeroPixel, palette_read |-> -1, ub |-> {}]
    ELSE [surface |-> o.surface, fill |-> ZeroPixel, palette_read |-> -1, ub |-> {}]

\* the disposal step of render_frame: [surface, ub], the canvas after the
\* disposal method of the previous frame; garbage is what a read past the end
\* of the palette yields
dispose_previous(o, color_map, garbage) ==
    LET bg_color == o.gif.SBackGroundColor IN
    IF o.recent_disposal = DISPOSE_BACKGROUND
    THEN IF bg_color = NO_TRANSPARENT_COLOR \/ bg_color < color_map.ColorCount
         THEN [surface |-> SDL_FillSurfaceRect(o.surface, o.previous_frame_rect, ZeroPixel),
               fill |-> ZeroPixel,
               palette_read |-> -1,
               ub |-> {}]
         ELSE LET color == IF bg_color >= 0 /\ bg_color < color_map.ColorCount
                           THEN color_map.Colors[bg_color + 1] ELSE garbage
              IN  [surface |-> SDL_FillSurfaceRect(o.surface, o.previous_frame_rect,
                                                   SDL_MapRGBA(color)),
                   fill |-> SDL_MapRGBA(color),
                   palette_read |-> bg_color,
                   ub |-> IF bg_color >= 0 /\ bg_color < color_map.ColorCount
                          THEN {} ELSE {"palette_read_out_of_range"}]
    ELSE [surface |-> o.surface, fill |-> ZeroPixel, palette_read |-> -1, ub |-> {}]

\* palette_colors[i] of render_frame, i in 0..ColorCount-1
palette_color(color_map, transparent_color, i) ==
    IF i = transparent_color THEN ZeroPixel
    ELSE SDL_MapRGBA(color_map.Colors[i + 1])

\* the address, in pixels from surface->pixels, that raster byte k is written to
raster_addr(surface, frame, k) ==
    ((k \div frame.Width) + frame.Top) * surface.w + frame.Left + (k % frame.Width)

\* whether the pixel loop of render_frame stores raster byte k
raster_writes(color_map, transparent_color, frame, k) ==
    LET color_index == frame.RasterBits[k + 1] IN
    /\ color_index < color_map.ColorCount
    /\ palette_color(color_map, transparent_color, color_index) # ZeroPixel

\* the pixel loop of render_frame: [surface, ub]
composite_frame(surface, color_map, transparent_color, frame) ==
    LET n == frame.Width * frame.Height
        W(a) == {k \in 0..(n - 1) :
                    /\ raster_addr(surface, frame, k) = a
                    /\ raster_writes(color_map, transparent_color, frame, k)}
        last_writer(a) == CHOOSE k \in W(a) : \A j \in W(a) : j <= k
    IN  [surface |->
            [surface EXCEPT !.px =
                [a1 \in 1..(surface.w * surface.h) |->
                    IF W(a1 - 1) = {} THEN surface.px[a1]
                    ELSE palette_color(color_map, transparent_color,
                                       frame.RasterBits[last_writer(a1 - 1) + 1])]],
         ub |-> IF \E k \in 0..(n - 1) :
                      /\ raster_writes(color_map, transparent_color, frame, k)
                      /\ raster_addr(surface, frame, k) \notin 0..(surface.w * surface.h - 1)
                THEN {"canvas_write_out_of_range"} ELSE {}]

\* AnimatedGif::render_frame (the renderer is never nullptr once SDL_AppInit
\* has succeeded): [o, textures, ub, log], the object and the texture heap it
\* leaves, the faults it ran into, and what it did
render_frame(o, texs, garbage) ==
    IF ~valid(o) THEN [o |-> o, textures |-> texs, ub |-> {}, log |-> [path |-> "skipped"]]
    ELSE IF o.current_frame >= Len(o.frame_info)
    THEN \* frame_info->texture_outdated is read past the end of the table
         [o |-> o, textures |-> texs, ub |-> {"frame_table_out_of_range"},
          log |-> [path |-> "fault"]]
    ELSE
    LET frame_info == o.frame_info[o.current_frame + 1] IN
    IF ~frame_info.texture_outdated
    THEN [o |-> [o EXCEPT !.texture = frame_info.texture,
                          !.recent_disposal = frame_info.disposal_mode],
          textures |-> texs, ub |-> {},
          log |-> [path |-> "cached", frame |-> o.current_frame,
                   before |-> o.surface, after |-> o.surface]]
    ELSE IF o.surface.null THEN [o |-> o, textures |-> texs, ub |-> {}, log |-> [path |-> "aborted"]]
    ELSE IF ~o.gif.open \/ o.gif.SavedImages = <<>>
    THEN [o |-> o, textures |-> texs, ub |-> {}, log |-> [path |-> "aborted"]]
    ELSE
    LET frame == o.gif.SavedImages[o.current_frame + 1]
        color_map == IF ~frame.ColorMap.null THEN frame.ColorMap ELSE o.gif.SColorMap
    IN
    IF frame.raster_null \/ color_map.null
    THEN [o |-> o, textures |-> texs, ub |-> {}, log |-> [path |-> "aborted"]]
    ELSE
    LET disposed == dispose_previous(o, color_map, garbage)
        drawn == composite_frame(disposed.surface, color_map,
                                 frame_info.transparent_color_index, frame)
        \* if (frame_info->texture) SDL_DestroyTexture(frame_info->texture)
        texs1 == texs \ {frame_info.texture}
        ub1 == IF frame_info.texture # 0 /\ frame_info.texture \notin texs
               THEN {"texture_destroyed_twice"} ELSE {}
        texture == SDL_CreateTexture(texs1)
        info1 == IF frame_info.texture # 0
                 THEN [frame_info EXCEPT !.texture = 0, !.texture_outdated = TRUE]
                 ELSE frame_info
        info2 == IF o.cache_frames
                 THEN [info1 EXCEPT !.texture = texture, !.texture_outdated = FALSE]
                 ELSE info1
    IN  [o |-> [o EXCEPT !.surface = drawn.surface,
                         !.texture = texture,
                         !.frame_info[o.current_frame + 1] = info2,
                         !.previous_frame_rect =
                             [x |-> frame.Left, y |-> frame.Top,
                              w |-> frame.Width, h |-> frame.Height],
                         !.recent_disposal = frame_info.disposal_mode],
         textures |-> texs1 \cup {texture},
         ub |-> disposed.ub \cup drawn.ub \cup ub1,
         log |-> [path |-> "decoded", frame |-> o.current_frame,
                  disposal |-> o.recent_disposal,
                  previous_frame_rect |-> o.previous_frame_rect,
                  rect |-> [x |-> frame.Left, y |-> frame.Top,
                            w |-> frame.Width, h |-> frame.Height],
                  fill |-> disposed.fill,
                  palette_read |-> disposed.palette_read,
                  color_count |-> color_map.ColorCount,
                  before |-> o.surface,
                  disposed |-> disposed.surface,
                  after |-> drawn.surface]]


\* AnimatedGif::init for the file `file` at tick `now`, `stagger` being
\* dist(gen) % 500: [o, textures, ub, log]
AnimatedGif_init(file, x, y, scale_by, rotate_by, flip_horizontal, alpha_by, cache_frames, now, stagger, texs, garbage) ==
    LET o0 == [kind |-> "AnimatedGif",
               pos |-> <<x, y>>,
               extent |-> [x |-> 0, y |-> 0, w |-> 0, h |-> 0],
               scale |-> scale_by,
               rotate |-> rotate_by,
               alpha |-> alpha_by,
               deleted |-> FALSE,
               flip_horizontal |-> flip_horizontal,
               surface |-> NullSurface,
               texture |-> 0,
               cache_frames |-> cache_frames,
               frame_count |-> 0,
               current_frame |-> 0,
               recent_disposal |-> DISPOSAL_UNSPECIFIED,
               latest_ticks |-> now + stagger,
               previous_frame_rect |-> [x |-> 0, y |-> 0, w |-> 0, h |-> 0],
               frame_info |-> <<>>,
               gif |-> NullGif]
    IN
    IF ~file.open
    THEN [o |-> o0, textures |-> texs, ub |-> {}, log |-> [path |-> "not opened"]]
    ELSE
    LET o1 == [o0 EXCEPT
                 !.gif = file,
                 !.frame_count = Len(file.SavedImages),
                 !.frame_info = [k \in 1..Len(file.SavedImages) |->
                                    frame_info_of(file.SavedImages[k])],
                 !.surface = SDL_CreateSurface(file.SWidth, file.SHeight)]
        r == render_frame(o1, texs, garbage)
    IN  [r EXCEPT !.o.extent = [x |-> file.SWidth \div 2, y |-> file.SHeight \div 2,
                                w |-> file.SWidth, h |-> file.SHeight]]

RECURSIVE invalidate_from(_, _, _, _)
\* the loop of AnimatedGif::invalidate from frame k on.  `for (auto info :
\* frame_info)` makes info a copy of the element: what the body stores in
\* info.texture_outdated and info.texture is gone when the iteration ends
invalidate_from(k, i, remove, c) ==
    IF k > Len(c.objs[i].frame_info) THEN c
    ELSE LET info == c.objs[i].frame_info[k]
             c1 == IF remove THEN SDL_DestroyTexture(c, info.texture) ELSE c
             c2 == IF remove /\ c1.objs[i].texture = info.texture
                   THEN [c1 EXCEPT !.objs[i].texture = 0] ELSE c1
         IN  invalidate_from(k + 1, i, remove, c2)

\* AnimatedGif::invalidate
invalidate(i, remove, c) == invalidate_from(1, i, remove, c)

AnimatedGif_handle_event(i, ev, c) ==
    LET r == IF valid(c.objs[i]) THEN Image_handle_event(i, ev, c) ELSE NotHandled(c)
    IN  IF r.needs_update = UPDATE_SETTINGS_CHANGED
        THEN [r EXCEPT !.c = invalidate(i, FALSE, r.c)]
        ELSE r

-----------------------------------------------------------------------------
(* LineObject *)

KeyDigits == <<"0", "1", "2", "3", "4", "5">>

\* a LineObject that takes the colour keys in whatever mode the overlay is
LineObject_handle_event_any_mode(i, ev, c) ==
    IF ev.type = "KEY_DOWN" /\ color_from_key(ev.key).ok
    THEN Handled([c EXCEPT !.objs[i].color = color_from_key(ev.key).color,
                           !.is_virgin = FALSE],
                 UPDATE_SETTINGS_CHANGED)
    ELSE NotHandled(c)

LineObject_handle_event(i, ev, c) ==
    LET o == c.objs[i] IN
    IF ~c.layout_mode THEN NotHandled(c)
    ELSE IF ev.type = "MOUSE_WHEEL" THEN
        IF "SHIFT" \in ev.mods
        THEN LET scaled == IF ev.wheel_y > 0 THEN RoundDiv(o.line_spacing * 11, 10)
                           ELSE RoundDiv(o.line_spacing * 9, 10)
             IN  Handled([c EXCEPT !.objs[i].line_spacing = Min(50000, Max(2000, scaled)),
                                   !.is_virgin = FALSE],
                         UPDATE_SETTINGS_CHANGED)
        ELSE IF "CTRL" \in ev.mods
        THEN Handled([c EXCEPT !.objs[i].line_angle =
                                    @ + (IF ev.wheel_y > 0 THEN 5 ELSE -5),
                               !.is_virgin = FALSE],
                     UPDATE_SETTINGS_CHANGED)
        ELSE NotHandled(c)
    ELSE IF ev.type = "KEY_DOWN" THEN
        IF color_from_key(ev.key).ok
        THEN Handled([c EXCEPT !.objs[i].color = color_from_key(ev.key).color,
                               !.is_virgin = FALSE],
                     UPDATE_SETTINGS_CHANGED)
        ELSE IF \E d \in 1..Len(KeyDigits) : KeyDigits[d] = ev.key
        THEN Handled([c EXCEPT !.objs[i].width =
                                    (CHOOSE d \in 1..Len(KeyDigits) : KeyDigits[d] = ev.key) - 1,
                               !.is_virgin = FALSE],
                     UPDATE_SETTINGS_CHANGED)
        ELSE IF ev.key = "d"
        THEN Handled([c EXCEPT !.objs[i].dashed = ~@, !.is_virgin = FALSE],
                     UPDATE_SETTINGS_CHANGED)
        ELSE NotHandled(c)
    ELSE NotHandled(c)

\* objects that answer every event the way they answer it in layout mode
handle_event_as_in_layout_mode(i, ev, c) ==
    CASE c.objs[i].kind = "Lines" ->
            LineObject_handle_event(i, ev, [c EXCEPT !.layout_mode = TRUE])
      [] c.objs[i].kind = "Signature" ->
            Signature_handle_event(i, ev, [c EXCEPT !.layout_mode = TRUE])
      [] c.objs[i].kind = "Image" ->
            Image_handle_event(i, ev, [c EXCEPT !.layout_mode = TRUE])
      [] c.objs[i].kind = "AnimatedGif" ->
            AnimatedGif_handle_event(i, ev, [c EXCEPT !.layout_mode = TRUE])

\* the virtual handle_event of each class
handle_event(i, ev, c) ==
    CASE c.objs[i].kind = "Lines" -> LineObject_handle_event(i, ev, c)
      [] c.objs[i].kind = "Signature" -> Signature_handle_event(i, ev, c)
      [] c.objs[i].kind = "Image" -> Image_handle_event(i, ev, c)
      [] c.objs[i].kind = "AnimatedGif" -> AnimatedGif_handle_event(i, ev, c)

-----------------------------------------------------------------------------
(* SDL_AppEvent *)

\* the first object whose type_name() is "Lines", 0 for nullptr
find_line_object(objs) ==
    IF \E k \in 1..Len(objs) : objs[k].kind = "Lines"
    THEN CHOOSE k \in 1..Len(objs) :
            objs[k].kind = "Lines" /\ \A j \in 1..(k - 1) : objs[j].kind # "Lines"
    ELSE 0

RECURSIVE dispatch_last_wins(_, _, _, _)
\* the loop without its break: every object is offered the event and the last
\* one that handles it has the final say
dispatch_last_wins(i, line_object, ev, c) ==
    IF i > Len(c.objs) THEN [handled_by |-> 0, needs_update |-> 0, c |-> c]
    ELSE IF i = line_object THEN dispatch_last_wins(i + 1, line_object, ev, c)
    ELSE LET r == handle_event(i, ev, c)
             rest == dispatch_last_wins(i + 1, line_object, ev, r.c)
         IN  IF rest.handled_by # 0 THEN rest
             ELSE IF r.handled
             THEN [handled_by |-> i, needs_update |-> r.needs_update, c |-> r.c]
             ELSE rest

RECURSIVE dispatch(_, _, _, _)
\* the loop of SDL_AppEvent over all objects except the LineObject, from
\* object i on: [handled_by, needs_update, c], handled_by 0 if none handled it
dispatch(i, line_object, ev, c) ==
    IF i > Len(c.objs) THEN [handled_by |-> 0, needs_update |-> 0, c |-> c]
    ELSE IF i = line_object THEN dispatch(i + 1, line_object, ev, c)
    ELSE LET r == handle_event(i, ev, c) IN
         IF r.handled
         THEN [handled_by |-> i, needs_update |-> r.needs_update, c |-> r.c]
         ELSE dispatch(i + 1, line_object, ev, r.c)

\* the if/else chain of SDL_AppEvent on event->type after the dispatch, on the
\* fields a == [needs_redraw, is_virgin, mouse_capture, alpha, layout_mode,
\* hidden, app_quit]
event_switch(type, ev, a) ==
    IF type = "QUIT" THEN [a EXCEPT !.app_quit = "SUCCESS"]
    ELSE IF type \in {"WINDOW_MINIMIZED", "WINDOW_RESTORED", "WINDOW_FOCUS_GAINED"}
    THEN [a EXCEPT !.needs_redraw = TRUE]
    ELSE IF type = "WINDOW_FOCUS_LOST" THEN [a EXCEPT !.mouse_capture = 0]
    ELSE IF type = "MOUSE_WHEEL" THEN
        IF a.layout_mode
        THEN [a EXCEPT !.alpha = IF ev.wheel_y < 0 THEN Max(0, @ - 5) ELSE Min(255, @ + 5),
                       !.is_virgin = FALSE,
                       !.needs_redraw = TRUE]
        ELSE a
    ELSE IF type = "KEY_DOWN" THEN
        IF ev.key = "LEFT"
        THEN [a EXCEPT !.needs_redraw = TRUE, !.alpha = Max(0, @ - 17), !.is_virgin = FALSE]
        ELSE IF ev.key = "RIGHT"
        THEN [a EXCEPT !.needs_redraw = TRUE, !.alpha = Min(255, @ + 17), !.is_virgin = FALSE]
        ELSE IF ev.key = "x"
        THEN [a EXCEPT !.needs_redraw = TRUE, !.app_quit = "SUCCESS"]
        ELSE IF ev.key \in {"SPACE", "RETURN"}
        THEN [a EXCEPT !.needs_redraw = TRUE, !.layout_mode = ~@]
        ELSE IF ev.key = "h"
        THEN [a EXCEPT !.needs_redraw = TRUE, !.hidden = ~@, !.is_virgin = FALSE]
        ELSE IF ev.key = "v" /\ "CTRL" \in ev.mods
        THEN \* clipboard_insert with a clipboard that holds neither text nor files
             [a EXCEPT !.needs_redraw = TRUE]
        ELSE [a EXCEPT !.needs_redraw = FALSE]
    ELSE a

\* a head of SDL_AppEvent that drains the pending motion events and keeps the
\* event it was called with
coalesce_motion_keeps_first(event, queue) ==
    IF event.type = "MOUSE_MOTION"
    THEN [event |-> event, queue |-> SelectSeq(queue, LAMBDA e : e.type # "MOUSE_MOTION")]
    ELSE [event |-> event, queue |-> queue]

\* the head of SDL_AppEvent: a motion event drains every motion event that is
\* pending in the queue and is overwritten with the last of them:
\* [event, queue]
coalesce_motion(event, queue) ==
    LET pending == SelectSeq(queue, LAMBDA e : e.type = "MOUSE_MOTION") IN
    IF event.type = "MOUSE_MOTION"
    THEN [event |-> IF pending = <<>> THEN event ELSE pending[Len(pending)],
          queue |-> SelectSeq(queue, LAMBDA e : e.type # "MOUSE_MOTION")]
    ELSE [event |-> event, queue |-> queue]

\* a dispatch that drops the update level the handler reports
report_update_dropped(needs_update, redraw, virgin) == [needs_redraw |-> redraw, is_virgin |-> virgin]

\* what the dispatch loops of SDL_AppEvent do with the needs_update of the
\* handle_event that returned true: the two flags of the AppContext
report_update(needs_update, redraw, virgin) ==
    [needs_redraw |-> redraw \/ needs_update >= UPDATE_VIEW_CHANGED,
     is_virgin |-> virgin /\ needs_update < UPDATE_SETTINGS_CHANGED]

\* SDL_AppEvent for the event that was taken from the queue, with `queue` the
\* events that are pending behind it
SDL_AppEvent_on(event, queue) ==
    \E m \in {coalesce_motion(event, queue)} :
    \E ev \in {m.event} :
    \E line_object \in {find_line_object(screen_objects)} :
    \E d \in {dispatch(1, line_object, ev, Ctx)} :
    \E l \in {IF d.handled_by = 0 /\ line_object # 0
               THEN handle_event(line_object, ev, d.c)
               ELSE NotHandled(d.c)} :
    \E handled_by \in {IF d.handled_by # 0 THEN d.handled_by
                        ELSE IF l.handled THEN line_object ELSE 0} :
    \E needs_update \in {IF d.handled_by # 0 THEN d.needs_update
                          ELSE IF l.handled THEN l.needs_update ELSE 0} :
    \E a \in {event_switch(IF handled_by # 0 THEN "LAST" ELSE ev.type, ev,
                 [needs_redraw |-> report_update(needs_update, needs_redraw, l.c.is_virgin).needs_redraw,
                  is_virgin |-> report_update(needs_update, needs_redraw, l.c.is_virgin).is_virgin,
                  mouse_capture |-> l.c.mouse_capture,
                  alpha |-> alpha,
                  layout_mode |-> layout_mode,
                  hidden |-> hidden,
                  app_quit |-> app_quit])} :
        /\ screen_objects' = l.c.objs
        /\ mouse_capture' = a.mouse_capture
        /\ dragging_origin' = l.c.dragging_origin
        /\ dragging_offset' = l.c.dragging_offset
        /\ layout_mode' = a.layout_mode
        /\ hidden' = a.hidden
        /\ alpha' = a.alpha
        /\ is_virgin' = a.is_virgin
        /\ needs_redraw' = a.needs_redraw
        /\ app_quit' = a.app_quit
        /\ textures' = l.c.textures
        /\ ub' = l.c.ub
        /\ adjusts' = IF ev.type = "MOUSE_WHEEL" \/ (ev.type = "KEY_DOWN" /\ ev.key \in {"LEFT", "RIGHT"})
                      THEN adjusts + 1 ELSE adjusts
        /\ last' = [op |-> "event", type |-> ev.type, handled_by |-> handled_by,
                    needs_update |-> needs_update,
                    drained |-> Len(queue) - Len(m.queue)]
        /\ event_queue' = m.queue
        /\ UNCHANGED <<have_animations, idle_ticks, idle_delay_ms, ticks, settings_file>>

\* SDL_AppEvent for an event behind which the events of event_queue are pending
SDL_AppEvent(event) == SDL_AppEvent_on(event, event_queue)

-----------------------------------------------------------------------------
(* draw and SDL_AppIterate *)

\* draw methods that render whatever the state of the object
draws_whatever_state(o) == o.kind # "Lines" \/ o.width # 0

\* whether the draw method of object o renders anything
draws(o) ==
    CASE o.kind = "Lines" -> o.width # 0
      [] OTHER -> valid(o)

\* what draw(app) renders: for each object whether it is rendered, and where
draw ==
    [i \in 1..Len(screen_objects) |->
        [rendered |-> ~hidden /\ draws(screen_objects[i]),
         at |-> IF i = mouse_capture
                THEN <<dragging_origin[1] - dragging_offset[1],
                       dragging_origin[2] - dragging_offset[2]>>
                ELSE screen_objects[i].pos]]

\* whether draw(app) never returns: the loops of LineObject::draw run
\* `for (c = c_min; c < c_max; c += line_spacing)`, and c_min < c_max as the
\* work area is not empty
line_loop_hangs(objs, hid) ==
    /\ ~hid
    /\ \E i \in 1..Len(objs) :
          objs[i].kind = "Lines" /\ objs[i].width # 0 /\ objs[i].line_spacing <= 0

\* whether draw(app) divides by zero: in its surface branch LineObject::draw
\* computes dist(gen) % (dash_len + gap_len) for every line constant of a
\* dashed pattern, and there is at least one as c_min < c_max
line_draw_divides_by_zero(objs, hid) ==
    /\ ~hid
    /\ \E i \in 1..Len(objs) :
          /\ objs[i].kind = "Lines" /\ objs[i].width # 0 /\ objs[i].dashed
          /\ objs[i].dashed_len + objs[i].dashed_gap = 0

\* a difference of two Uint64 values, as a Uint64
U64(d) == IF d >= 0 THEN d ELSE d + TwoPow64

\* faults that end the process at once (a read through a null vector, a
\* division by zero, an exception that nothing catches) or stop it for good (a
\* loop that never ends)
FatalFaults ==
    {"frame_table_out_of_range", "mod_by_zero", "uncaught_exception", "line_loop_never_ends"}

Crashed == ub \cap FatalFaults # {}

NoLog == [path |-> "none"]

RECURSIVE animate_last_wins(_, _, _, _)
\* the loop with a timeout that is the remaining time of the object looked at
\* last, not the minimum
animate_last_wins(i, now, garbage, st) ==
    IF i > Len(st.objs) \/ st.ub \cap FatalFaults # {} THEN st
    ELSE LET gif == st.objs[i] IN
    IF gif.kind = "AnimatedGif" /\ valid(gif) /\ gif.current_frame < Len(gif.frame_info)
       /\ gif.frame_count > 0
    THEN LET delay == U64(now - gif.latest_ticks)
             delay_ms == gif.frame_info[gif.current_frame + 1].delay_ms
         IN  IF delay >= delay_ms
             THEN LET r == render_frame(
                               [gif EXCEPT !.current_frame = (@ + 1) % gif.frame_count],
                               st.textures, garbage)
                  IN  animate_last_wins(i + 1, now, garbage,
                          [st EXCEPT !.objs[i] = [r.o EXCEPT !.latest_ticks = now],
                                     !.textures = r.textures,
                                     !.ub = @ \cup r.ub,
                                     !.needs_redraw = TRUE,
                                     !.logs[i] = r.log])
             ELSE animate_last_wins(i + 1, now, garbage,
                      [st EXCEPT !.timeout = Max(0, delay_ms - delay)])
    ELSE animate_last_wins(i + 1, now, garbage, st)

RECURSIVE animate(_, _, _, _)
\* the loop of SDL_AppIterate over the objects, from object i on, on
\* st == [objs, textures, ub, timeout, needs_redraw, logs]
animate(i, now, garbage, st) ==
    IF i > Len(st.objs) \/ st.ub \cap FatalFaults # {} THEN st
    ELSE LET gif == st.objs[i] IN
    IF gif.kind = "AnimatedGif" /\ valid(gif)
    THEN IF gif.current_frame >= Len(gif.frame_info)
         THEN \* frame_info[current_frame].delay_ms is read past the end of the table
              [st EXCEPT !.ub = @ \cup {"frame_table_out_of_range"}]
         ELSE
         LET delay == U64(now - gif.latest_ticks)
             delay_ms == gif.frame_info[gif.current_frame + 1].delay_ms
         IN  IF delay >= delay_ms
             THEN IF gif.frame_count = 0
                  THEN [st EXCEPT !.ub = @ \cup {"mod_by_zero"}]
                  ELSE LET r == render_frame(
                                    [gif EXCEPT !.current_frame = (@ + 1) % gif.frame_count],
                                    st.textures, garbage)
                       IN  animate(i + 1, now, garbage,
                               [st EXCEPT !.objs[i] = [r.o EXCEPT !.latest_ticks = now],
                                          !.textures = r.textures,
                                          !.ub = @ \cup r.ub,
                                          !.needs_redraw = TRUE,
                                          !.logs[i] = r.log])
             ELSE animate(i + 1, now, garbage,
                      [st EXCEPT !.timeout =
                          Min(IF @ < 0 THEN idle_delay_ms ELSE @,
                              Max(0, delay_ms - delay))])
    ELSE animate(i + 1, now, garbage, st)

\* SDL_AppIterate when SDL_GetTicks() returns now; garbage is what a read past
\* the end of a palette yields
SDL_AppIterate(now, garbage) ==
    /\ app_quit = "CONTINUE"
    /\ LET drawn == IF needs_redraw THEN draw ELSE <<>>
           line_object == screen_objects[1]
           idle_active == /\ line_object.kind = "Lines"
                          /\ line_object.dashed /\ line_object.dashed_gap > 0
                          /\ line_object.width > 0 /\ ~hidden
           idle_delay == now - idle_ticks
           idle_fired == idle_active /\ idle_delay >= idle_delay_ms
           timeout0 == IF ~idle_active THEN -1
                       ELSE IF idle_fired THEN 0
                       ELSE Max(0, idle_delay_ms - idle_delay)
           st0 == [objs |-> screen_objects, textures |-> textures, ub |-> ub,
                   timeout |-> timeout0, needs_redraw |-> idle_fired,
                   logs |-> [i \in 1..Len(screen_objects) |-> NoLog]]
       IN  \E st \in {IF needs_redraw /\ line_draw_divides_by_zero(screen_objects, hidden)
                       THEN [st0 EXCEPT !.ub = @ \cup {"mod_by_zero"}]
                       ELSE IF needs_redraw /\ line_loop_hangs(screen_objects, hidden)
                       THEN [st0 EXCEPT !.ub = @ \cup {"line_loop_never_ends"}]
                       ELSE IF have_animations /\ ~hidden
                       THEN animate(1, now, garbage, st0)
                       ELSE st0} :
           /\ screen_objects' = st.objs
           /\ textures' = st.textures
           /\ ub' = st.ub
           /\ needs_redraw' = st.needs_redraw
           /\ idle_ticks' = IF idle_fired THEN now ELSE idle_ticks
           /\ ticks' = now
           /\ last' = [op |-> "iterate", drew |-> needs_redraw, drawn |-> drawn,
                       idle_active |-> idle_active, idle_fired |-> idle_fired,
                       logs |-> st.logs, timeout |-> st.timeout,
                       waited |-> ~st.needs_redraw /\ st.ub \cap FatalFaults = {}]
    /\ UNCHANGED <<mouse_capture, dragging_origin, dragging_offset, layout_mode, hidden,
                   alpha, is_virgin, have_animations, idle_delay_ms, app_quit, adjusts,
                   event_queue, settings_file>>

-----------------------------------------------------------------------------
(* Persistence.  A JSON number that is written with round_to_precision(v, d)
   is held as the integer v * 10^d, an (int) as it is, a colour string
   "#RRGGBB" as the tuple <<RR, GG, BB>>; the JSON object {} is the empty
   function <<>>.                                                           *)

RECURSIVE Pow10(_)
Pow10(decimals) == IF decimals = 0 THEN 1 ELSE 10 * Pow10(decimals - 1)

\* round_to_precision(n / d, decimals) * 10^decimals: std::round rounds halves
\* away from zero
round_to_precision(n, d, decimals) ==
    LET m == n * Pow10(decimals) IN
    IF m >= 0 THEN RoundDiv(m, d) ELSE -RoundDiv(-m, d)

\* int_to_hex_color: [throws, hex], the six hex digits of the integer, in pairs
int_to_hex_color(color) ==
    [throws |-> color < 0 \/ color > 16777215,
     hex |-> <<(color \div 65536) % 256, (color \div 256) % 256, color % 256>>]

\* LineObject::to_json, Signature::to_json, Image::to_json, AnimatedGif::to_json
to_json(o) ==
    CASE o.kind = "Lines" ->
            [type |-> "Lines",
             alpha |-> 100,
             width |-> o.width,
             color |-> int_to_hex_color(o.color).hex,
             dashed |-> o.dashed,
             dashed_len |-> o.dashed_len,
             dashed_gap |-> o.dashed_gap,
             line_angle |-> round_to_precision(o.line_angle, 1, 4),
             line_spacing |-> round_to_precision(o.line_spacing, 1000, 1)]
      [] o.kind = "Signature" ->
            IF ~valid(o) THEN <<>>
            ELSE [x |-> TruncDiv(o.pos[1], 1),
                  y |-> TruncDiv(o.pos[2], 1),
                  scale |-> round_to_precision(o.scale, 1000, 4),
                  rotate |-> round_to_precision(o.rotate, 1, 4),
                  alpha |-> round_to_precision(o.alpha, 255, 2),
                  font_color |-> int_to_hex_color(o.font_color).hex,
                  type |-> "Signature"]
      [] o.kind = "Image" ->
            IF ~valid(o) THEN <<>>
            ELSE [x |-> TruncDiv(o.pos[1], 1),
                  y |-> TruncDiv(o.pos[2], 1),
                  scale |-> round_to_precision(o.scale, 1000, 4),
                  rotate |-> round_to_precision(o.rotate, 1, 4),
                  flip_horizontal |-> o.flip_horizontal,
                  alpha |-> round_to_precision(o.alpha, 255, 2),
                  type |-> "Image"]
      [] o.kind = "AnimatedGif" ->
            IF ~valid(o) THEN <<>>
            ELSE [x |-> TruncDiv(o.pos[1], 1),
                  y |-> TruncDiv(o.pos[2], 1),
                  scale |-> round_to_precision(o.scale, 1000, 4),
                  rotate |-> round_to_precision(o.rotate, 1, 4),
                  flip_horizontal |-> o.flip_horizontal,
                  alpha |-> round_to_precision(o.alpha, 255, 2),
                  cache_frames |-> o.cache_frames,
                  type |-> "AnimatedGif"]

\* whether to_json of the object throws (int_to_hex_color, out of range)
to_json_throws(o) ==
    \/ o.kind = "Lines" /\ int_to_hex_color(o.color).throws
    \/ o.kind = "Signature" /\ valid(o) /\ int_to_hex_color(o.font_color).throws

\* a loop that writes the record of every object of the scene
persisted_all(objs) == [k \in 1..Len(objs) |-> to_json(objs[k])]

\* the loop of settings_write over the scene: the "objects" array
persisted_objects(objs) ==
    LET kept == SelectSeq(objs, valid)
    IN  [k \in 1..Len(kept) |-> to_json(kept[k])]

\* settings_write: the file it leaves
settings_write ==
    IF is_virgin \/ \E k \in 1..Len(screen_objects) :
                       valid(screen_objects[k]) /\ to_json_throws(screen_objects[k])
    THEN settings_file
    ELSE [written |-> TRUE,
          hidden |-> hidden,
          alpha |-> round_to_precision(alpha, 255, 2),
          idle_delay_ms |-> idle_delay_ms,
          objects |-> persisted_objects(screen_objects)]

\* `delete screen_object`: ~Signature and ~Image destroy the texture and the
\* surface; ~AnimatedGif runs invalidate(true), destroys the texture and the
\* surface, and ~Image then destroys the same texture and surface once more
destroy_object(i, c) ==
    LET o == c.objs[i] IN
    CASE o.kind = "Lines" -> c
      [] o.kind \in {"Signature", "Image"} -> SDL_DestroyTexture(c, o.texture)
      [] o.kind = "AnimatedGif" ->
            LET c1 == invalidate(i, TRUE, c)
                c2 == SDL_DestroyTexture(c1, c1.objs[i].texture)
                c3 == SDL_DestroyTexture(c2, c2.objs[i].texture)
            IN  [c3 EXCEPT !.ub = @ \cup (IF o.surface.null THEN {}
                                          ELSE {"surface_destroyed_twice"})]

RECURSIVE free_screen_objects(_, _)
\* the loop of free_screen_objects from object i on
free_screen_objects(i, c) ==
    IF i > Len(c.objs) THEN c
    ELSE free_screen_objects(i + 1, destroy_object(i, c))

\* SDL_AppQuit with the result the callbacks returned; once it has run the
\* AppContext is deleted and the process is over (app_quit "TERMINATED")
SDL_AppQuit ==
    /\ app_quit \in {"SUCCESS", "FAILURE"}
    /\ \E file \in {IF app_quit = "SUCCESS" THEN settings_write ELSE settings_file} :
       \E c \in {free_screen_objects(1, Ctx)} :
        /\ settings_file' = file
        /\ ub' = c.ub \cup
                 (IF /\ app_quit = "SUCCESS" /\ ~is_virgin
                     /\ \E k \in 1..Len(screen_objects) :
                           valid(screen_objects[k]) /\ to_json_throws(screen_objects[k])
                  THEN {"uncaught_exception"} ELSE {})
        /\ textures' = c.textures
        /\ screen_objects' = <<>>
        /\ mouse_capture' = 0
        /\ app_quit' = "TERMINATED"
        /\ last' = [op |-> "quit", saved |-> screen_objects]
    /\ UNCHANGED <<dragging_origin, dragging_offset, layout_mode, hidden, alpha, is_virgin,
                   needs_redraw, have_animations, idle_ticks, idle_delay_ms, ticks, adjusts,
                   event_queue>>

-----------------------------------------------------------------------------
(* Construction of the scene *)

\* no settings file has been written
NoFile == [written |-> FALSE]

\* the LineObject that screen_objects_add_lines creates
LineObject_new ==
    [kind |-> "Lines", pos |-> <<0, 0>>, alpha |-> 255, deleted |-> FALSE,
     width |-> 1, color |-> 0, dashed |-> TRUE, dashed_len |-> 10, dashed_gap |-> 10,
     line_angle |-> 45, line_spacing |-> 15000]

\* Signature::init, font being what the text renderer yields for the text:
\* [ok, w, h, coverage], coverage the alpha of each pixel of the glyph bitmap
Signature_init(font, x, y, font_color, scale_by, rotate_by, alpha_by, texs) ==
    LET o0 == [kind |-> "Signature",
               pos |-> <<x, y>>,
               extent |-> [x |-> 0, y |-> 0, w |-> 0, h |-> 0],
               scale |-> scale_by,
               rotate |-> rotate_by,
               alpha |-> alpha_by,
               deleted |-> FALSE,
               font_color |-> font_color,
               surface |-> NullSurface,
               texture |-> 0]
    IN  IF ~font.ok THEN [o |-> o0, textures |-> texs]
        ELSE LET texture == SDL_CreateTexture(texs) IN
             [o |-> [o0 EXCEPT
                        !.surface =
                            [null |-> FALSE, w |-> font.w, h |-> font.h,
                             px |-> [k \in 1..(font.w * font.h) |->
                                        <<GetBValue(font_color), GetGValue(font_color),
                                          GetRValue(font_color),
                                          (font.coverage[k] * alpha_by) \div 255>>]],
                        !.texture = texture,
                        !.extent = [x |-> font.w \div 2, y |-> font.h \div 2,
                                    w |-> font.w, h |-> font.h]],
              textures |-> texs \cup {texture}]

\* Image::init, image being what IMG_Load and SDL_ConvertSurface yield for the
\* file: a surface, or NullSurface
Image_init(image, x, y, scale_by, rotate_by, flip_horizontal, alpha_by, texs) ==
    LET o0 == [kind |-> "Image",
               pos |-> <<x, y>>,
               extent |-> [x |-> 0, y |-> 0, w |-> 0, h |-> 0],
               scale |-> scale_by,
               rotate |-> rotate_by,
               alpha |-> alpha_by,
               deleted |-> FALSE,
               flip_horizontal |-> flip_horizontal,
               surface |-> NullSurface,
               texture |-> 0]
    IN  IF image.null THEN [o |-> o0, textures |-> texs]
        ELSE LET texture == SDL_CreateTexture(texs) IN
             [o |-> [o0 EXCEPT
                        !.surface = image,
                        !.texture = texture,
                        !.extent = [x |-> image.w \div 2, y |-> image.h \div 2,
                                    w |-> image.w, h |-> image.h]],
              textures |-> texs \cup {texture}]

\* the work area that update_screen_metrics has found, and its centre
work_area == [x |-> 0, y |-> 0, w |-> 100, h |-> 60]

center_x == work_area.x + work_area.w \div 2

center_y == work_area.y + work_area.h \div 2

(* A persisted record is a record of its JSON fields: a field that the JSON
   object does not hold is no field of the record.  Two more fields describe
   the JSON types: wrong_type, the names of the fields whose JSON value is a
   string where the loader converts it to a number or a boolean, or a number
   where it converts it to a string; strings, the names of the colour fields
   whose JSON value is a string and not an integer.  A colour string is
   [match, digits]: whether it has the form "#RRGGBB", and its three pairs of
   hex digits.  A path is the sequence of its parts, the suffix last.  The
   fields font, image and file are what the resource that the record names
   yields when it is loaded; stagger is dist(gen) % 500.                     *)

\* object.contains(key)
contains(object, key) == key \in DOMAIN object

wrong_type(object, key) ==
    contains(object, key) /\ contains(object, "wrong_type") /\ key \in object.wrong_type

\* object.value(key, default): [throws, v]
json_value(object, key, default) ==
    [throws |-> wrong_type(object, key),
     v |-> IF contains(object, key) /\ ~wrong_type(object, key) THEN object[key] ELSE default]

\* hex_color_to_int: [throws, v]
hex_color_to_int(hex) ==
    [throws |-> ~hex.match,
     v |-> IF hex.match
           THEN hex.digits[1] * 65536 + hex.digits[2] * 256 + hex.digits[3] ELSE 0]

\* get_color_value: [throws, v]
get_color_value(j, key, default_value) ==
    IF ~contains(j, key) THEN [throws |-> FALSE, v |-> default_value]
    ELSE IF contains(j, "strings") /\ key \in j.strings THEN hex_color_to_int(j[key])
    ELSE IF wrong_type(j, key) THEN [throws |-> TRUE, v |-> 0]
    ELSE [throws |-> FALSE, v |-> j[key]]

\* the type that init_screen_objects goes by: the "type" of the record, or the
\* type it derives from "image_full_path"; "" if there is none; [throws, v]
type_of_record(object) ==
    IF contains(object, "type")
    THEN [throws |-> FALSE, v |-> IF wrong_type(object, "type") THEN "" ELSE object.type]
    ELSE IF contains(object, "image_full_path")
    THEN IF wrong_type(object, "image_full_path") THEN [throws |-> TRUE, v |-> ""]
         ELSE LET full_path == object.image_full_path IN
              [throws |-> FALSE,
               v |-> IF full_path # <<>> /\ full_path[Len(full_path)] = ".gif"
                     THEN "AnimatedGif" ELSE "Image"]
    ELSE [throws |-> FALSE, v |-> ""]

\* object["x"] as the constructors convert it, after init_screen_objects has
\* put the centre in the place of a missing or negative one: [throws, v]
coordinate_of_record(object, key, center) ==
    IF ~contains(object, key) THEN [throws |-> FALSE, v |-> center]
    ELSE IF wrong_type(object, key) THEN [throws |-> TRUE, v |-> 0]
    ELSE [throws |-> FALSE, v |-> IF object[key] < 0 THEN center ELSE object[key]]

\* whether the init(...) call of the constructor from JSON throws while its
\* arguments are converted
constructor_throws(object, keys) ==
    \/ coordinate_of_record(object, "x", center_x).throws
    \/ coordinate_of_record(object, "y", center_y).throws
    \/ \E key \in keys : wrong_type(object, key)
    \/ "font_color" \in keys /\ get_color_value(object, "font_color", 16777215).throws

\* Signature(json), Image(json), AnimatedGif(json): [o, textures, ub, log].
\* When the conversion of an argument throws, the constructor catches it and
\* the object stays as the member initialisers left it
construct_from_json(type, object, now, garbage, texs) ==
    LET x == coordinate_of_record(object, "x", center_x).v
        y == coordinate_of_record(object, "y", center_y).v
    IN
    IF type = "Signature" THEN
        IF constructor_throws(object, {"text", "font_name", "font_size", "font_color",
                                       "scale", "rotate", "alpha"})
        THEN [o |-> Signature_init([ok |-> FALSE], -1, -1, 0, 1000, 0, 255, texs).o,
              textures |-> texs, ub |-> {}, log |-> NoLog]
        ELSE LET r == Signature_init(object.font, x, y,
                                     get_color_value(object, "font_color", 16777215).v,
                                     json_value(object, "scale", 1000).v,
                                     json_value(object, "rotate", 0).v,
                                     json_value(object, "alpha", 255).v, texs)
             IN  [o |-> r.o, textures |-> r.textures, ub |-> {}, log |-> NoLog]
    ELSE IF type = "Image" THEN
        IF constructor_throws(object, {"image_name", "image_full_path", "scale", "rotate",
                                       "flip_horizontal", "alpha"})
        THEN [o |-> Image_init(NullSurface, -1, -1, 1000, 0, FALSE, 255, texs).o,
              textures |-> texs, ub |-> {}, log |-> NoLog]
        ELSE LET r == Image_init(object.image, x, y,
                                 json_value(object, "scale", 1000).v,
                                 json_value(object, "rotate", 0).v,
                                 json_value(object, "flip_horizontal", FALSE).v,
                                 json_value(object, "alpha", 255).v, texs)
             IN  [o |-> r.o, textures |-> r.textures, ub |-> {}, log |-> NoLog]
    ELSE
        IF constructor_throws(object, {"image_name", "image_full_path", "scale", "rotate",
                                       "flip_horizontal", "alpha", "cache_frames"})
        THEN [o |-> AnimatedGif_init(NullGif, -1, -1, 1000, 0, FALSE, 255, TRUE, now, 0,
                                     texs, garbage).o,
              textures |-> texs, ub |-> {}, log |-> NoLog]
        ELSE AnimatedGif_init(object.file, x, y,
                              json_value(object, "scale", 1000).v,
                              json_value(object, "rotate", 0).v,
                              json_value(object, "flip_horizontal", FALSE).v,
                              json_value(object, "alpha", 255).v,
                              json_value(object, "cache_frames", TRUE).v,
                              now, object.stagger, texs, garbage)

\* the "Lines" branch of init_screen_objects on the LineObject `lines`:
\* [throws, o].  Nothing catches what object.value and get_color_value throw
update_lines(lines, object) ==
    [throws |-> \/ \E key \in {"alpha", "width", "dashed", "dashed_len", "dashed_gap",
                               "line_angle", "line_spacing"} : wrong_type(object, key)
                \/ get_color_value(object, "color", 0).throws,
     o |-> [lines EXCEPT !.alpha = json_value(object, "alpha", 140).v,
                         !.width = json_value(object, "width", 1).v,
                         !.color = get_color_value(object, "color", 0).v,
                         !.dashed = json_value(object, "dashed", TRUE).v,
                         !.dashed_len = json_value(object, "dashed_len", 10).v,
                         !.dashed_gap = json_value(object, "dashed_gap", 10).v,
                         !.line_angle = json_value(object, "line_angle", 45).v,
                         !.line_spacing = json_value(object, "line_spacing", 15000).v]]

RECURSIVE init_screen_objects(_, _, _, _, _)
\* init_screen_objects over the records objects[k..], on
\* st == [objs, textures, ub, have_animations, logs]
init_screen_objects(objects, k, now, garbage, st) ==
    IF k > Len(objects) \/ st.ub \cap FatalFaults # {} THEN st
    ELSE LET object == objects[k]
             type == type_of_record(object)
         IN
    IF type.throws
    THEN [st EXCEPT !.ub = @ \cup {"uncaught_exception"}]
    ELSE IF type.v \in {"Signature", "Image", "AnimatedGif"}
    THEN LET r == construct_from_json(type.v, object, now, garbage, st.textures)
         IN  init_screen_objects(objects, k + 1, now, garbage,
                 [st EXCEPT !.objs = Append(@, r.o), !.textures = r.textures,
                            !.ub = @ \cup r.ub,
                            !.have_animations = @ \/ type.v = "AnimatedGif",
                            !.logs = Append(@, r.log)])
    ELSE IF type.v = "Lines" /\ find_line_object(st.objs) # 0
    THEN LET r == update_lines(st.objs[find_line_object(st.objs)], object) IN
         IF r.throws
         THEN [st EXCEPT !.ub = @ \cup {"uncaught_exception"}]
         ELSE init_screen_objects(objects, k + 1, now, garbage,
                  [st EXCEPT !.objs[find_line_object(st.objs)] = r.o])
    ELSE init_screen_objects(objects, k + 1, now, garbage, st)

\* what the text renderer yields for the signature text: a 2 x 1 bitmap
Font == [ok |-> TRUE, w |-> 2, h |-> 1, coverage |-> <<255, 255>>]

\* what IMG_Load yields for the image file: 2 x 1 opaque pixels
Picture ==
    [null |-> FALSE, w |-> 2, h |-> 1, px |-> <<<<9, 9, 9, 255>>, <<9, 9, 9, 255>>>>]

\* a vector that takes the new element at its front
push_front(objs, obj) == <<obj>> \o objs

\* app->screen_objects.push_back(obj)
push_back(objs, obj) == Append(objs, obj)

\* AppContext::logo_scale, text_scale and text_font_color
logo_scale == 200

text_scale == 400

text_font_color == RGB(112, 146, 190)

\* SDL_AppInit when the settings gave no object besides the LineObject: the
\* logo and the signature are created, five sixths across and one fifth down
\* the work area
create_default_objects(st) ==
    IF Len(st.objs) > 1 \/ st.ub \cap FatalFaults # {} THEN st
    ELSE LET x_pos == work_area.x + (work_area.w * 5) \div 6
             y_pos == work_area.y + work_area.h \div 5
             image == Image_init(Picture, x_pos, y_pos, logo_scale, 0, FALSE, 255,
                                 st.textures)
             text == Signature_init(Font, x_pos,
                                    y_pos + (image.o.extent.h * image.o.scale * 6) \div 10000,
                                    text_font_color, text_scale, 0, 255, image.textures)
         IN  [st EXCEPT !.objs = push_back(push_back(@, image.o), text.o),
                        !.textures = text.textures,
                        !.logs = @ \o <<NoLog, NoLog>>]

\* the state SDL_AppInit leaves for the persisted records `objects`
AppInit(objects, hidden0, alpha0, idle_delay0, garbage) ==
    \E st \in {create_default_objects(
                  init_screen_objects(objects, 1, 0, garbage,
                      [objs |-> <<LineObject_new>>, textures |-> {}, ub |-> {},
                       have_animations |-> FALSE, logs |-> <<NoLog>>]))} :
        /\ screen_objects = st.objs
        /\ textures = st.textures
        /\ ub = st.ub \cup (IF st.ub \cap FatalFaults # {} THEN {}
                             ELSE IF line_draw_divides_by_zero(st.objs, hidden0)
                             THEN {"mod_by_zero"}
                             ELSE IF line_loop_hangs(st.objs, hidden0)
                             THEN {"line_loop_never_ends"} ELSE {})
        /\ have_animations = st.have_animations
        /\ mouse_capture = 0
        /\ dragging_origin = <<0, 0>>
        /\ dragging_offset = <<0, 0>>
        /\ layout_mode = FALSE
        /\ hidden = hidden0
        /\ alpha = alpha0
        /\ is_virgin = FALSE
        /\ needs_redraw = FALSE
        /\ idle_ticks = 0
        /\ idle_delay_ms = idle_delay0
        /\ app_quit = "CONTINUE"
        /\ ticks = 0
        /\ adjusts = 0
        /\ last = [op |-> "init", logs |-> st.logs, records |-> objects]
        /\ event_queue = <<>>
        /\ settings_file = NoFile

-----------------------------------------------------------------------------
(* The scene specification: the LineObject, a Signature and an Image that
   overlap, and an Image whose file is missing, under mouse, key and window
   events *)

\* pointer positions: on the first object only, on both, on the second only,
\* on none
Points == {<<5, 5>>, <<15, 5>>, <<25, 5>>}

Ev(type, pt, wheel_y, key, mods, cursor) ==
    [type |-> type, x |-> pt[1], y |-> pt[2], wheel_y |-> wheel_y, key |-> key,
     mods |-> mods, cursor |-> cursor]

MouseEvents ==
    {Ev(type, pt, 0, "", {}, pt) :
        type \in {"MOUSE_BUTTON_DOWN", "MOUSE_BUTTON_UP", "MOUSE_MOTION"}, pt \in Points}

KeyEvents ==
    {Ev("KEY_DOWN", <<0, 0>>, 0, key, {}, cursor) :
        key \in {"SPACE", "DELETE", "a"},
        cursor \in {<<5, 5>>, <<25, 5>>}}

WindowEvents ==
    {Ev(type, <<0, 0>>, 0, "", {}, <<0, 0>>) :
        type \in {"QUIT", "WINDOW_RESTORED", "WINDOW_FOCUS_LOST"}}

SignatureRecord ==
    [type |-> "Signature", x |-> 10, y |-> 0, scale |-> 10000, rotate |-> 0,
     alpha |-> 255, font |-> Font, font_color |-> RGB(112, 146, 190)]

ImageRecord ==
    [type |-> "Image", x |-> 20, y |-> 0, scale |-> 10000, rotate |-> 0,
     alpha |-> 255, flip_horizontal |-> FALSE, image |-> Picture]

MissingImageRecord ==
    [type |-> "Image", x |-> 10, y |-> 0, scale |-> 10000, rotate |-> 0,
     alpha |-> 255, flip_horizontal |-> FALSE, image |-> NullSurface]

\* the persisted object lists the scene starts from
Scenes == {<<MissingImageRecord, SignatureRecord, ImageRecord>>}

Init == \E objects \in Scenes : AppInit(objects, FALSE, 140, 30, <<0, 0, 0>>)

Running == app_quit = "CONTINUE" /\ ~Crashed

Event ==
    \E ev \in MouseEvents \cup KeyEvents \cup WindowEvents : Running /\ SDL_AppEvent(ev)

Iterate ==
    \E dt \in {0, MaxTicks} :
        /\ Running
        /\ ticks + dt <= MaxTicks
        /\ SDL_AppIterate(ticks + dt, <<0, 0, 0>>)

Next == Event \/ Iterate

Spec == Init /\ [][Next]_vars

-----------------------------------------------------------------------------
(* Claims about the dispatch of events and the mouse capture *)

SceneEvents == MouseEvents \cup KeyEvents \cup WindowEvents

\* the step of SDL_AppEvent for the event ev
EventStep(ev) == last'.op = "event" /\ last'.type = ev.type /\ Running /\ SDL_AppEvent(ev)

\* the non-Lines objects whose hit_test is true at pt
hits_at(pt) ==
    {i \in 1..Len(screen_objects) :
        screen_objects[i].kind # "Lines" /\ hit_test(screen_objects[i], pt)}

\* the non-Lines objects whose handle_event returns true for ev
takers_of(ev) ==
    {i \in 1..Len(screen_objects) :
        screen_objects[i].kind # "Lines" /\ handle_event(i, ev, Ctx).handled}

SetMin(S) == CHOOSE m \in S : \A n \in S : m <= n

\* C1, as stated: a button-down where the hit_test of some object is true gives
\* capture to the first such object in list order (in whatever mode the
\* overlay is).
C1_ButtonDownCapturesFirstHit ==
    [][\A ev \in MouseEvents :
          (ev.type = "MOUSE_BUTTON_DOWN" /\ EventStep(ev) /\ hits_at(<<ev.x, ev.y>>) # {})
              => mouse_capture' = SetMin(hits_at(<<ev.x, ev.y>>))]_vars

\* C1, amended: SDL_AppEvent hands every event to the non-Lines objects in
\* list order and stops at the first whose handle_event returns true, so that
\* this object alone handles the event and leaves the scene as its handler
\* alone leaves it; the LineObject is asked only if none did.  While layout
\* mode is on, a button-down where objects overlap gives capture to the first
\* object in list order whose hit_test is true; outside layout mode no object
\* takes a button-down and the capture stays as it is.
C1_FirstTakerWins ==
    [][\A ev \in SceneEvents :
          EventStep(ev) =>
              LET takers == takers_of(ev)
                  hits == hits_at(<<ev.x, ev.y>>)
              IN  /\ takers # {} =>
                        /\ last'.handled_by = SetMin(takers)
                        /\ screen_objects' = handle_event(SetMin(takers), ev, Ctx).c.objs
                  /\ takers = {} =>
                        last'.handled_by \in {0, find_line_object(screen_objects)}
                  /\ (ev.type = "MOUSE_BUTTON_DOWN" /\ layout_mode /\ hits # {}) =>
                        /\ mouse_capture' = SetMin(hits)
                        /\ last'.handled_by = SetMin(hits)
                  /\ (ev.type = "MOUSE_BUTTON_DOWN" /\ (~layout_mode \/ hits = {})) =>
                        /\ mouse_capture' = mouse_capture
                        /\ last'.handled_by = 0]_vars

\* a button-down was handled where two objects overlap, and the first of them
\* in list order holds the capture
C1_Witness ==
    /\ last.op = "event" /\ last.type = "MOUSE_BUTTON_DOWN"
    /\ mouse_capture # 0
    /\ last.handled_by = mouse_capture
    /\ Cardinality(hits_at(dragging_origin)) >= 2
    /\ mouse_capture = SetMin(hits_at(dragging_origin))

\* C2, as stated: when SDL_AppEvent has processed a button-up or a focus-lost
\* event, no object holds the mouse capture.
C2_NoCaptureAfterRelease ==
    (last.op = "event" /\ last.type \in {"MOUSE_BUTTON_UP", "WINDOW_FOCUS_LOST"})
        => mouse_capture = 0

\* C3, as stated: while an object that is still valid holds the capture and
\* layout mode is off, a motion event moves the drag preview to the pointer
\* and a button-up commits the previewed position and releases the capture.
C3_DragResolvableOutsideLayoutMode ==
    [][\A ev \in MouseEvents :
          (/\ mouse_capture # 0
           /\ valid(screen_objects[mouse_capture])
           /\ ~layout_mode
           /\ EventStep(ev))
              => /\ ev.type = "MOUSE_MOTION" => dragging_origin' = <<ev.x, ev.y>>
                 /\ ev.type = "MOUSE_BUTTON_UP" =>
                        /\ mouse_capture' = 0
                        /\ screen_objects'[mouse_capture].pos =
                              <<dragging_origin[1] - dragging_offset[1],
                                dragging_origin[2] - dragging_offset[2]>>]_vars

-----------------------------------------------------------------------------
(* The animation specification: the LineObject and one AnimatedGif, loaded
   from one of the files below, under the scheduling ticks and a few events *)

Palette ==
    [null |-> FALSE, ColorCount |-> 2, Colors |-> <<<<10, 20, 30>>, <<200, 100, 50>>>>]

Gcb(DelayTime, TransparentColor, DisposalMode) ==
    [present |-> TRUE, DelayTime |-> DelayTime, TransparentColor |-> TransparentColor,
     DisposalMode |-> DisposalMode]

Frame(Left, Top, Width, Height, RasterBits, gcb) ==
    [Left |-> Left, Top |-> Top, Width |-> Width, Height |-> Height,
     ColorMap |-> NullColorMap, raster_null |-> FALSE, RasterBits |-> RasterBits,
     gcb |-> gcb]

\* three frames inside a 3 x 2 canvas, disposal modes do-not, background,
\* unspecified; the background index is a palette index
GifThreeFrames ==
    [open |-> TRUE, SWidth |-> 3, SHeight |-> 2, SBackGroundColor |-> 0,
     SColorMap |-> Palette,
     SavedImages |->
        <<Frame(0, 0, 3, 2, <<1, 1, 1, 1, 1, 1>>, Gcb(1, NO_TRANSPARENT_COLOR, DISPOSE_DO_NOT)),
          Frame(1, 0, 2, 1, <<0, 1>>, Gcb(2, 0, DISPOSE_BACKGROUND)),
          Frame(0, 1, 2, 1, <<1, 0>>, Gcb(1, NO_TRANSPARENT_COLOR, DISPOSAL_UNSPECIFIED))>>]

\* two frames, both restore-to-background; the background index is past the
\* end of the palette
GifBadBackground ==
    [open |-> TRUE, SWidth |-> 2, SHeight |-> 1, SBackGroundColor |-> 5,
     SColorMap |-> Palette,
     SavedImages |->
        <<Frame(0, 0, 2, 1, <<1, 0>>, Gcb(1, NO_TRANSPARENT_COLOR, DISPOSE_BACKGROUND)),
          Frame(0, 0, 1, 1, <<1>>, Gcb(1, NO_TRANSPARENT_COLOR, DISPOSE_BACKGROUND))>>]

\* two frames that reach past the right edge of a 2 x 2 canvas
GifOversizedFrames ==
    [open |-> TRUE, SWidth |-> 2, SHeight |-> 2, SBackGroundColor |-> 0,
     SColorMap |-> Palette,
     SavedImages |->
        <<Frame(1, 0, 2, 1, <<1, 1>>, Gcb(1, NO_TRANSPARENT_COLOR, DISPOSE_DO_NOT)),
          Frame(1, 1, 2, 1, <<1, 1>>, Gcb(1, NO_TRANSPARENT_COLOR, DISPOSE_DO_NOT))>>]

\* one frame without a graphics control block, with a raster byte that is no
\* palette index
GifOneFrame ==
    [open |-> TRUE, SWidth |-> 2, SHeight |-> 1, SBackGroundColor |-> 0,
     SColorMap |-> Palette,
     SavedImages |->
        <<[Frame(0, 0, 2, 1, <<1, 2>>, Gcb(0, 0, 0)) EXCEPT !.gcb.present = FALSE]>>]

\* a file that DGifOpenFileName opens and in which DGifSlurp finds no image
GifNoFrames ==
    [open |-> TRUE, SWidth |-> 2, SHeight |-> 1, SBackGroundColor |-> 0,
     SColorMap |-> Palette, SavedImages |-> <<>>]

GifFiles ==
    {GifThreeFrames, GifBadBackground, GifOversizedFrames, GifOneFrame, GifNoFrames, NullGif}

\* what a read past the end of a palette may yield
Garbage == {<<7, 7, 7>>, <<200, 100, 50>>}

AnimatedGifRecord(file, cache_frames, stagger) ==
    [type |-> "AnimatedGif", x |-> 10, y |-> 0, scale |-> 10000, rotate |-> 0,
     alpha |-> 255, flip_horizontal |-> FALSE, file |-> file,
     cache_frames |-> cache_frames, stagger |-> stagger]

LinesRecord(dashed) ==
    [type |-> "Lines", alpha |-> 140, width |-> 1, color |-> 0, dashed |-> dashed,
     dashed_len |-> 10, dashed_gap |-> 10, line_angle |-> 45, line_spacing |-> 15000]

InitGif ==
    \E file \in GifFiles, cache_frames \in BOOLEAN, stagger \in {0, 10},
       dashed \in BOOLEAN :
        AppInit(<<LinesRecord(dashed), AnimatedGifRecord(file, cache_frames, stagger)>>,
                FALSE, 140, 15, <<7, 7, 7>>)

GifEvents ==
    {Ev("KEY_DOWN", <<0, 0>>, 0, key, {}, <<5, 5>>) : key \in {"SPACE", "f", "h"}}
    \cup {Ev("MOUSE_WHEEL", <<5, 5>>, -1, "", {}, <<5, 5>>)}

GifEvent ==
    \E ev \in GifEvents :
        /\ Running
        /\ ev.type = "MOUSE_WHEEL" => adjusts < MaxAdjust
        /\ SDL_AppEvent(ev)

GifIterate ==
    \E dt \in {0, 10, 20}, garbage \in Garbage :
        /\ Running
        /\ ticks + dt <= MaxTicks
        /\ SDL_AppIterate(ticks + dt, garbage)

NextGif == GifEvent \/ GifIterate

SpecGif == InitGif /\ [][NextGif]_vars

-----------------------------------------------------------------------------
(* Claims about the decoding of frames *)

\* the objects for which the latest SDL_AppIterate decoded a frame
DecodedByIterate ==
    {i \in 1..Len(screen_objects) : last.op = "iterate" /\ last.logs[i].path = "decoded"}

\* the objects for which the latest SDL_AppIterate or SDL_AppInit decoded a frame
Decoded ==
    {i \in 1..Len(screen_objects) :
        last.op \in {"init", "iterate"} /\ last.logs[i].path = "decoded"}

\* the rectangle of a SavedImage
RectOf(frame) ==
    [x |-> frame.Left, y |-> frame.Top, w |-> frame.Width, h |-> frame.Height]

\* whether pixel number a (from 1) of the surface lies in the rectangle
InRect(surface, a, rect) ==
    LET x == (a - 1) % surface.w
        y == (a - 1) \div surface.w
    IN  /\ x >= rect.x /\ x < rect.x + rect.w
        /\ y >= rect.y /\ y < rect.y + rect.h

\* the frame of the file that was displayed before frame number f (from 0)
PreviousFrame(gif, f) ==
    gif.SavedImages[((f + Len(gif.SavedImages) - 1) % Len(gif.SavedImages)) + 1]

\* C4, as stated: when an AnimatedGif has handled an event with the result
\* settings-changed, every frame record of it is marked outdated.
C4_SettingsChangeOutdatesFrames ==
    (/\ last.op = "event"
     /\ last.handled_by # 0
     /\ last.needs_update = UPDATE_SETTINGS_CHANGED
     /\ screen_objects[last.handled_by].kind = "AnimatedGif")
        => \A k \in DOMAIN screen_objects[last.handled_by].frame_info :
              screen_objects[last.handled_by].frame_info[k].texture_outdated

\* C5: when a frame advance decodes a frame and the disposal mode of the frame
\* displayed before it is restore-to-background, the disposal step sets every
\* canvas pixel inside the rectangle of that frame to the fill colour and
\* changes no pixel outside it; when that mode is do-not-dispose or
\* unspecified the disposal step leaves the canvas as it was.
C5_DisposalClearsPreviousRect ==
    \A i \in DecodedByIterate :
        LET log == last.logs[i]
            previous == PreviousFrame(screen_objects[i].gif, log.frame)
        IN  IF frame_info_of(previous).disposal_mode = DISPOSE_BACKGROUND
            THEN \A a \in DOMAIN log.before.px :
                    log.disposed.px[a] =
                        IF InRect(log.before, a, RectOf(previous))
                        THEN log.fill ELSE log.before.px[a]
            ELSE log.disposed = log.before

\* a frame was decoded after a restore-to-background frame whose rectangle is
\* a part of the canvas, and the disposal step changed the canvas
C5_Witness ==
    \E i \in DecodedByIterate :
        LET log == last.logs[i]
            previous == PreviousFrame(screen_objects[i].gif, log.frame)
        IN  /\ frame_info_of(previous).disposal_mode = DISPOSE_BACKGROUND
            /\ log.disposed # log.before
            /\ \E a \in DOMAIN log.before.px : ~InRect(log.before, a, RectOf(previous))
            /\ \E a \in DOMAIN log.before.px : InRect(log.before, a, RectOf(previous))

\* C6, as stated: when restore-to-background disposal is applied, the fill is
\* the palette colour at the background index of the animation if that index
\* is a palette index, and fully transparent if it is none; the palette is
\* never read outside [0, ColorCount).
C6_BackgroundFill ==
    \A i \in Decoded :
        LET log == last.logs[i]
            gif == screen_objects[i].gif
            bg_color == gif.SBackGroundColor
        IN  log.disposal = DISPOSE_BACKGROUND =>
                /\ IF bg_color \in 0..(gif.SColorMap.ColorCount - 1)
                   THEN log.fill = SDL_MapRGBA(gif.SColorMap.Colors[bg_color + 1])
                   ELSE log.fill = ZeroPixel
                /\ log.palette_read \in -1..(log.color_count - 1)

\* C7, as stated: a frame decode leaves each canvas pixel under a raster byte
\* as it was if the byte is the transparent index of the frame, and gives it
\* the palette colour of the byte with alpha 255 if not (for a byte that is a
\* palette index); canvas pixels outside the rectangle of the frame are
\* unchanged, and nothing is stored outside the canvas.
C7_Compositing ==
    \A i \in Decoded :
        LET log == last.logs[i]
            gif == screen_objects[i].gif
            frame == gif.SavedImages[log.frame + 1]
            color_map == IF ~frame.ColorMap.null THEN frame.ColorMap ELSE gif.SColorMap
            transparent_color == frame_info_of(frame).transparent_color_index
        IN  /\ \A k \in 0..(frame.Width * frame.Height - 1) :
                  LET x == frame.Left + (k % frame.Width)
                      y == frame.Top + (k \div frame.Width)
                      a == y * log.before.w + x + 1
                      color_index == frame.RasterBits[k + 1]
                  IN  (x < log.before.w /\ y < log.before.h
                       /\ color_index < color_map.ColorCount)
                          => log.after.px[a] =
                                IF color_index = transparent_color
                                THEN log.disposed.px[a]
                                ELSE SDL_MapRGBA(color_map.Colors[color_index + 1])
            /\ \A a \in DOMAIN log.before.px :
                  ~InRect(log.before, a, RectOf(frame))
                      => log.after.px[a] = log.disposed.px[a]
            /\ "canvas_write_out_of_range" \notin ub

\* C8, as stated: an AnimatedGif whose file did not open, or holds no frame, is
\* not valid, draws nothing, and no frame table was read out of range and no
\* modulo by a frame count of zero was taken.
C8_FailedGifIsInvalid ==
    \A i \in 1..Len(screen_objects) :
        LET o == screen_objects[i] IN
        (o.kind = "AnimatedGif" /\ (~o.gif.open \/ o.gif.SavedImages = <<>>))
            => /\ ~valid(o)
               /\ ~draws(o)
               /\ ub \cap FatalFaults = {}

\* C9, as stated: on a tick, while the overlay is not hidden, every valid
\* animated object has its current_frame in [0, frame_count); if the time since
\* its last frame change is at least the delay of the current frame, its
\* current_frame becomes (current_frame + 1) mod frame_count, the decode step
\* runs, its timestamp becomes the tick and a redraw is requested; otherwise
\* the object does not change.
C9_AdvanceWhenDue ==
    [][(last'.op = "iterate" /\ have_animations /\ ~hidden) =>
          \A i \in 1..Len(screen_objects) :
              LET o == screen_objects[i] IN
              (o.kind = "AnimatedGif" /\ valid(o)) =>
                  /\ o.current_frame \in 0..(o.frame_count - 1)
                  /\ IF ticks' - o.latest_ticks >= o.frame_info[o.current_frame + 1].delay_ms
                     THEN /\ screen_objects'[i].current_frame =
                                (o.current_frame + 1) % o.frame_count
                          /\ screen_objects'[i].latest_ticks = ticks'
                          /\ last'.logs[i].path \in {"decoded", "cached"}
                          /\ needs_redraw'
                     ELSE screen_objects'[i] = o]_vars

-----------------------------------------------------------------------------
(* Claims about the wait of SDL_AppIterate *)

\* whether the idle timer of SDL_AppIterate is active
IdleActive ==
    /\ screen_objects[1].kind = "Lines"
    /\ screen_objects[1].dashed /\ screen_objects[1].dashed_gap > 0
    /\ screen_objects[1].width > 0 /\ ~hidden

\* the times that remain until the next frame of each valid animated object
Pending ==
    IF have_animations /\ ~hidden
    THEN {screen_objects[i].frame_info[screen_objects[i].current_frame + 1].delay_ms
              - (ticks - screen_objects[i].latest_ticks) :
            i \in {j \in 1..Len(screen_objects) :
                      screen_objects[j].kind = "AnimatedGif" /\ valid(screen_objects[j])}}
    ELSE {}

\* SDL_AppIterate has just gone to wait for the next event
Waiting == last.op = "iterate" /\ last.waited

-----------------------------------------------------------------------------
(* The persistence specification: a Signature, an Image whose file is
   missing and an AnimatedGif, edited in layout mode, then saved by
   SDL_AppQuit *)

\* on the Signature and on the AnimatedGif (the Signature is first in the
\* list); left of both; on no object
OnBoth == <<15, 5>>

LeftOfBoth == <<2, 5>>

OnNone == <<90, 50>>

SaveScenes ==
    {<<SignatureRecord, MissingImageRecord,
       [AnimatedGifRecord(GifOneFrame, TRUE, 0) EXCEPT !.x = 20]>>,
     \* a Signature whose font file cannot be opened, and an Image
     <<[SignatureRecord EXCEPT !.font = [ok |-> FALSE]], ImageRecord>>}

InitSave == \E objects \in SaveScenes : AppInit(objects, FALSE, 140, 30, <<0, 0, 0>>)

SaveEvents ==
    {Ev("KEY_DOWN", <<0, 0>>, 0, "SPACE", {}, OnNone),
     Ev("KEY_DOWN", <<0, 0>>, 0, "DELETE", {}, OnBoth),
     Ev("KEY_DOWN", <<0, 0>>, 0, "r", {}, OnBoth),
     Ev("KEY_DOWN", <<0, 0>>, 0, "r", {}, OnNone),
     Ev("MOUSE_BUTTON_DOWN", OnBoth, 0, "", {}, OnBoth),
     Ev("MOUSE_MOTION", LeftOfBoth, 0, "", {}, LeftOfBoth),
     Ev("MOUSE_BUTTON_UP", LeftOfBoth, 0, "", {}, LeftOfBoth),
     Ev("MOUSE_WHEEL", OnBoth, -1, "", {}, OnBoth),
     Ev("MOUSE_WHEEL", OnBoth, -1, "", {"SHIFT"}, OnBoth),
     Ev("MOUSE_WHEEL", OnNone, -1, "", {"SHIFT"}, OnNone),
     Ev("QUIT", <<0, 0>>, 0, "", {}, <<0, 0>>)}

SaveEvent ==
    \E ev \in SaveEvents :
        /\ Running
        /\ ev.type = "MOUSE_WHEEL" => adjusts < MaxAdjust
        /\ SDL_AppEvent(ev)

SaveIterate ==
    \E dt \in {0, MaxTicks} :
        /\ Running
        /\ ticks + dt <= MaxTicks
        /\ SDL_AppIterate(ticks + dt, <<0, 0, 0>>)

SaveQuit == ~Crashed /\ SDL_AppQuit

NextSave == SaveEvent \/ SaveIterate \/ SaveQuit

SpecSave == InitSave /\ [][NextSave]_vars

-----------------------------------------------------------------------------
(* Claims about deleted objects and about what is saved *)

SavePoints == {OnBoth, LeftOfBoth, OnNone}

\* the indices of the objects that satisfy Test, in list order
IndicesWhere(objs, Test(_)) ==
    SelectSeq([i \in 1..Len(objs) |-> i], LAMBDA i : Test(objs[i]))

NotDeleted(o) == ~o.deleted

\* C11: an object whose deleted flag is set is rendered by no draw, its
\* hit_test is false for every point, its handle_event returns false for every
\* event, every later step leaves it deleted and in its place in
\* screen_objects until SDL_AppQuit tears the scene down, and the settings
\* file that SDL_AppQuit writes holds a record for no deleted object.
C11_DeletedObjectIsInert ==
    [][\A i \in 1..Len(screen_objects) :
          screen_objects[i].deleted =>
              /\ ~draw[i].rendered
              /\ \A pt \in SavePoints : ~hit_test(screen_objects[i], pt)
              /\ \A ev \in SaveEvents : ~handle_event(i, ev, Ctx).handled
              /\ last'.op # "quit" =>
                    /\ Len(screen_objects') = Len(screen_objects)
                    /\ screen_objects'[i] = screen_objects[i]
              /\ (last'.op = "quit" /\ settings_file'.written) =>
                    /\ Len(settings_file'.objects) <=
                          Len(IndicesWhere(screen_objects, NotDeleted))
                    /\ \A k \in 1..Len(settings_file'.objects) :
                          settings_file'.objects[k] # <<>>]_vars

\* a scene with a deleted object in it was saved, with fewer records than
\* objects
C11_Witness ==
    /\ last.op = "quit"
    /\ settings_file.written
    /\ \E i \in 1..Len(last.saved) :
          last.saved[i].deleted /\ last.saved[i].texture # 0
    /\ Len(settings_file.objects) < Len(last.saved)

-----------------------------------------------------------------------------
(* The loading specification: a Signature and an Image that are well formed,
   with one more persisted record between them *)

BadColorString == [match |-> FALSE, digits |-> <<>>]

LoadRecords ==
    <<LinesRecord(TRUE),
     \* "line_spacing": 0
     [LinesRecord(TRUE) EXCEPT !.line_spacing = 0],
     \* "color": "black"
     [color |-> BadColorString, strings |-> {"color"}] @@ LinesRecord(TRUE),
     \* "color": "#7092BE"
     [color |-> [match |-> TRUE, digits |-> <<112, 146, 190>>], strings |-> {"color"}]
        @@ LinesRecord(TRUE),
     \* "width": "2"
     [wrong_type |-> {"width"}] @@ LinesRecord(TRUE),
     \* "font_color": "blue"
     [font_color |-> BadColorString, strings |-> {"font_color"}] @@ SignatureRecord,
     \* "font_color": true
     [wrong_type |-> {"font_color"}] @@ SignatureRecord,
     \* "x": "10"
     [wrong_type |-> {"x"}] @@ SignatureRecord,
     \* "scale": "1.0"
     [wrong_type |-> {"scale"}] @@ ImageRecord,
     \* no "y", no "alpha"
     [type |-> "Image", x |-> 40, scale |-> 10000, image |-> Picture],
     \* "cache_frames": 1.5
     [wrong_type |-> {"cache_frames"}] @@ AnimatedGifRecord(GifOneFrame, TRUE, 0),
     \* no "type" and no "image_full_path"
     [x |-> 40, y |-> 0],
     \* no "type", "image_full_path": "logo.png"
     [x |-> 40, y |-> 0, image_full_path |-> <<"logo", ".png">>, image |-> Picture],
     \* no "type", "image_full_path": 7
     [x |-> 40, y |-> 0, image_full_path |-> 7, wrong_type |-> {"image_full_path"}]>>

LoadScene(k) == <<SignatureRecord, LoadRecords[k], ImageRecord>>

InitLoad ==
    \E k \in 1..Len(LoadRecords) : AppInit(LoadScene(k), FALSE, 140, 30, <<0, 0, 0>>)

LoadEvents ==
    {Ev("KEY_DOWN", <<0, 0>>, 0, "SPACE", {}, OnNone),
     Ev("KEY_DOWN", <<0, 0>>, 0, "r", {}, OnBoth),
     Ev("KEY_DOWN", <<0, 0>>, 0, "DELETE", {}, OnBoth),
     Ev("MOUSE_WHEEL", OnNone, 1, "", {"SHIFT"}, OnNone),
     Ev("QUIT", <<0, 0>>, 0, "", {}, <<0, 0>>)}

LoadEvent ==
    \E ev \in LoadEvents :
        /\ Running
        /\ ev.type = "MOUSE_WHEEL" => adjusts < MaxAdjust
        /\ SDL_AppEvent(ev)

LoadIterate ==
    \E dt \in {0, MaxTicks} :
        /\ Running
        /\ ticks + dt <= MaxTicks
        /\ SDL_AppIterate(ticks + dt, <<0, 0, 0>>)

LoadQuit == ~Crashed /\ SDL_AppQuit

NextLoad == LoadEvent \/ LoadIterate \/ LoadQuit

SpecLoad == InitLoad /\ [][NextLoad]_vars

-----------------------------------------------------------------------------
(* C12: in every reachable state the line_spacing of the LineObject lies in
   [2, 50], whether wheel events or a persisted Lines record gave it its
   value, and so the loop over the family of lines in LineObject::draw ends. *)
C12_LineSpacingInRange ==
    /\ \A i \in 1..Len(screen_objects) :
          screen_objects[i].kind = "Lines" =>
              screen_objects[i].line_spacing \in 2000..50000
    /\ "line_loop_never_ends" \notin ub

-----------------------------------------------------------------------------
\* what init_screen_objects and the constructor from JSON make of the record j
\* that to_json has written: the position, scale, rotation and opacity they
\* hand to init(...), in the units of the record (whole pixels, 1e-4, 1e-4
\* degrees, 1e-2)
reloaded(j) ==
    [x |-> coordinate_of_record(j, "x", center_x).v,
     y |-> coordinate_of_record(j, "y", center_y).v,
     scale |-> json_value(j, "scale", 10000).v,
     rotate |-> json_value(j, "rotate", 0).v,
     alpha |-> json_value(j, "alpha", 100).v]

\* whether the object that its own record gives back lies within 1e-3 of o
round_trip_within_tolerance(o) ==
    \E r \in {reloaded(to_json(o))} :
        /\ Abs(r.x - o.pos[1]) * 1000 <= 1
        /\ Abs(r.y - o.pos[2]) * 1000 <= 1
        /\ Abs(r.scale - 10 * o.scale) * 1000 <= 10000
        /\ Abs(r.rotate - 10000 * o.rotate) * 1000 <= 10000
        /\ Abs(255 * r.alpha - 100 * o.alpha) * 1000 <= 25500

(* C13: for every valid Signature, Image and AnimatedGif of a reachable state,
   to_json followed by the loading of that record gives an object whose
   position, scale, rotation and opacity each differ from the original by at
   most 1e-3.                                                                *)
C13_RoundTrip ==
    \A i \in 1..Len(screen_objects) :
        (/\ screen_objects[i].kind \in {"Signature", "Image", "AnimatedGif"}
         /\ valid(screen_objects[i])
         /\ ~to_json_throws(screen_objects[i]))
            => round_trip_within_tolerance(screen_objects[i])

-----------------------------------------------------------------------------
\* a Signature, Image or AnimatedGif
IsPersistedKind(o) == o.kind \in {"Signature", "Image", "AnimatedGif"}

(* C14: to_json of a Signature, Image or AnimatedGif returns an empty record
   exactly when valid() is false, and settings_write persists exactly the
   objects of the scene whose valid() is true at save time, in the order of
   the list.                                                                 *)
C14_SaveKeepsExactlyTheValid ==
    [][/\ \A i \in 1..Len(screen_objects) :
             IsPersistedKind(screen_objects[i]) /\ ~to_json_throws(screen_objects[i])
                 => (to_json(screen_objects[i]) = <<>> <=> ~valid(screen_objects[i]))
       /\ (last'.op = "quit" /\ settings_file'.written) =>
             \E kept \in {IndicesWhere(screen_objects, valid)} :
                 /\ Len(settings_file'.objects) = Len(kept)
                 /\ \A k \in 1..Len(kept) :
                       settings_file'.objects[k] = to_json(screen_objects[kept[k]])]_vars

\* a scene that holds an Image whose file could not be loaded, and objects
\* that are valid after it, was saved
C14_Witness ==
    /\ last.op = "quit"
    /\ settings_file.written
    /\ \E i, k \in 1..Len(last.saved) :
          /\ i < k
          /\ last.saved[i].kind = "Image" /\ last.saved[i].texture = 0
          /\ ~last.saved[i].deleted
          /\ valid(last.saved[k]) /\ IsPersistedKind(last.saved[k])
    /\ \E k \in 1..Len(settings_file.objects) : settings_file.objects[k].type = "AnimatedGif"

-----------------------------------------------------------------------------
(* C15: when SDL_AppEvent returns from an event that an object has handled
   with an update level of at least view-changed, needs_redraw is true; when
   the level was settings-changed, is_virgin is false as well; an event
   handled with the level none changes neither flag.                         *)
C15_FlagsFollowUpdateLevel ==
    [][(last'.op = "event" /\ last'.handled_by # 0) =>
          /\ last'.needs_update >= UPDATE_VIEW_CHANGED => needs_redraw'
          /\ last'.needs_update >= UPDATE_SETTINGS_CHANGED => needs_redraw' /\ ~is_virgin'
          /\ last'.needs_update < UPDATE_VIEW_CHANGED =>
                needs_redraw' = needs_redraw /\ is_virgin' = is_virgin]_vars

\* an event was handled with settings-changed and the redraw it asks for has
\* not been drawn yet
C15_Witness ==
    /\ last.op = "event"
    /\ last.handled_by # 0
    /\ last.needs_update = UPDATE_SETTINGS_CHANGED
    /\ needs_redraw
    /\ ~is_virgin

-----------------------------------------------------------------------------
(* C16: the handle_event of the LineObject takes an event only when every
   other object has declined it, it changes a property of the lines
   (spacing, angle, colour, width, dashed) only while layout mode is on, and an
   event that another object has taken changes no property of the lines.     *)
C16_LinesAreAskedLast ==
    [][\A ev \in SaveEvents :
          EventStep(ev) =>
              \E line_object \in {find_line_object(screen_objects)} :
                  /\ line_object # 0
                  /\ last'.handled_by = line_object => takers_of(ev) = {}
                  /\ screen_objects'[line_object] # screen_objects[line_object] =>
                        /\ layout_mode
                        /\ takers_of(ev) = {}
                        /\ last'.handled_by = line_object
                  /\ takers_of(ev) # {} =>
                        screen_objects'[line_object] = screen_objects[line_object]]_vars

\* the LineObject has taken a key that no other object took, in layout mode,
\* and the lines have the colour of that key
C16_Witness ==
    /\ last.op = "event" /\ last.type = "KEY_DOWN"
    /\ layout_mode
    /\ last.handled_by = find_line_object(screen_objects)
    /\ last.handled_by # 0
    /\ screen_objects[last.handled_by].color # 0

-----------------------------------------------------------------------------
(* The queue specification: events are posted to the SDL event queue and the
   main loop takes them from its head, one SDL_AppEvent call for each *)

QueueEvents ==
    {Ev("KEY_DOWN", <<0, 0>>, 0, "SPACE", {}, OnNone),
     Ev("MOUSE_BUTTON_DOWN", OnBoth, 0, "", {}, OnBoth),
     Ev("MOUSE_MOTION", OnBoth, 0, "", {}, OnBoth),
     Ev("MOUSE_MOTION", LeftOfBoth, 0, "", {}, LeftOfBoth),
     Ev("MOUSE_MOTION", OnNone, 0, "", {}, OnNone),
     Ev("MOUSE_BUTTON_UP", OnNone, 0, "", {}, OnNone)}

InitQueue == AppInit(<<SignatureRecord>>, FALSE, 140, 30, <<0, 0, 0>>)

\* SDL_PushEvent, by the system
QueuePost ==
    \E ev \in QueueEvents :
        /\ Running
        /\ Len(event_queue) < MaxQueue
        /\ event_queue' = Append(event_queue, ev)
        /\ UNCHANGED <<screen_objects, mouse_capture, dragging_origin, dragging_offset,
                       layout_mode, hidden, alpha, is_virgin, needs_redraw, app_quit,
                       textures, ub, adjusts, last, have_animations, idle_ticks,
                       idle_delay_ms, ticks, settings_file>>

\* the main loop takes the event at the head of the queue and calls
\* SDL_AppEvent with it
QueueDeliver ==
    /\ Running
    /\ event_queue # <<>>
    /\ SDL_AppEvent_on(Head(event_queue), Tail(event_queue))

NextQueue == QueuePost \/ QueueDeliver

SpecQueue == InitQueue /\ [][NextQueue]_vars

IsMotion(e) == e.type = "MOUSE_MOTION"

IsNoMotion(e) == e.type # "MOUSE_MOTION"

(* C17: when SDL_AppEvent is called with a motion event while motion events
   are pending in the queue, all of them are taken from the queue and the
   objects are handed only the most recent one; every event that is no
   motion event stays in the queue until its own call and is handed to the
   objects once, in that call.                                               *)
C17_MotionIsCoalesced ==
    [][Len(event_queue') < Len(event_queue) =>
          \E head \in {Head(event_queue)} :
          \E motions \in {SelectSeq(event_queue, IsMotion)} :
              /\ IsMotion(head) =>
                    /\ event_queue' = SelectSeq(event_queue, IsNoMotion)
                    /\ SDL_AppEvent_on(motions[Len(motions)], Tail(event_queue))
                    /\ (mouse_capture # 0 /\ last'.handled_by = mouse_capture) =>
                          dragging_origin' = <<motions[Len(motions)].x, motions[Len(motions)].y>>
                    /\ last'.drained = Len(motions) - 1
              /\ IsNoMotion(head) =>
                    /\ event_queue' = Tail(event_queue)
                    /\ SDL_AppEvent_on(head, Tail(event_queue))
                    /\ last'.type = head.type
                    /\ last'.drained = 0]_vars

\* a motion event was delivered with two more pending behind it, and the
\* object that is dragged follows the last of them
C17_Witness ==
    /\ last.op = "event" /\ last.type = "MOUSE_MOTION"
    /\ last.drained = 2
    /\ mouse_capture # 0
    /\ last.handled_by = mouse_capture
    /\ dragging_origin \in {OnBoth, LeftOfBoth, OnNone}

-----------------------------------------------------------------------------
\* whether the colour field `key` of the record is a string that is no "#RRGGBB"
HasInvalidColour(record, key) ==
    /\ contains(record, key)
    /\ contains(record, "strings") /\ key \in record.strings
    /\ ~record[key].match

\* the objects of the scene that are no LineObject and are valid
ValidObjects == {i \in 1..Len(screen_objects) :
                    screen_objects[i].kind # "Lines" /\ valid(screen_objects[i])}

(* C18: a persisted record whose colour field is no valid "#RRGGBB" string
   does not crash the loading: no exception leaves init_screen_objects, and
   the object of the record is there with the default colour in the place of
   the invalid one (white for the font_color of a Signature, black for the
   color of the lines).                                                      *)
C18_InvalidColourGivesDefault ==
    (last.op = "init" /\ \E k \in 1..Len(last.records) :
                            \/ HasInvalidColour(last.records[k], "font_color")
                            \/ HasInvalidColour(last.records[k], "color"))
        => /\ "uncaught_exception" \notin ub
           /\ Cardinality(ValidObjects) = Len(screen_objects) - 1
           /\ \A k \in 1..Len(last.records) :
                 /\ HasInvalidColour(last.records[k], "font_color") =>
                       \E i \in ValidObjects :
                           /\ screen_objects[i].kind = "Signature"
                           /\ screen_objects[i].font_color = 16777215
                 /\ HasInvalidColour(last.records[k], "color") =>
                       screen_objects[find_line_object(screen_objects)].color = 0

\* whether a field of the record has the wrong JSON type
Malformed(record) == contains(record, "wrong_type") /\ record.wrong_type # {}

\* the records that are well formed and describe a Signature, an Image or an
\* AnimatedGif
WellFormedRecords(records) ==
    {k \in 1..Len(records) :
        /\ ~Malformed(records[k])
        /\ type_of_record(records[k]).v \in {"Signature", "Image", "AnimatedGif"}}

(* C19: when one record of the persisted list is malformed, the loading skips
   that record only: no exception leaves init_screen_objects, and every well
   formed record before and after it has its object in the scene.            *)
C19_MalformedRecordIsSkipped ==
    (last.op = "init" /\ \E k \in 1..Len(last.records) : Malformed(last.records[k]))
        => /\ "uncaught_exception" \notin ub
           /\ Cardinality(ValidObjects) = Cardinality(WellFormedRecords(last.records))

-----------------------------------------------------------------------------
(* C20: once valid() of an object is false, because its resource could not be
   loaded or because it was deleted, it is false in every later state,
   whatever events, ticks and colour keys follow; and while it is false the
   draw method of the object renders nothing and its hit_test is false for
   every point.                                                              *)
C20_InvalidStaysInvalid ==
    [][\A i \in 1..Len(screen_objects) :
          ~valid(screen_objects[i]) =>
              /\ ~draws(screen_objects[i])
              /\ \A pt \in SavePoints : ~hit_test(screen_objects[i], pt)
              /\ i <= Len(screen_objects') => ~valid(screen_objects'[i])]_vars

\* a colour key was pressed in layout mode with the cursor on a Signature
\* whose font could not be loaded, and the Signature is as invalid as before
C20_Witness ==
    /\ last.op = "event" /\ last.type = "KEY_DOWN"
    /\ layout_mode
    /\ screen_objects[find_line_object(screen_objects)].color # 0
    /\ \E i \in 1..Len(screen_objects) :
          /\ screen_objects[i].kind = "Signature"
          /\ screen_objects[i].texture = 0
          /\ ~screen_objects[i].deleted
          /\ screen_objects[i].pos = <<10, 0>>

-----------------------------------------------------------------------------
(* The hit-test specification: a Signature and an Image of 2 x 2 pixels with
   different alpha, loaded with a scale, a rotation and a flip, and then
   rotated, scaled, flipped and faded with the wheel and the keyboard *)

\* a 2 x 2 image: alpha 255 and 50 in the upper row, 51 and 0 in the lower
HitPicture ==
    [null |-> FALSE, w |-> 2, h |-> 2,
     px |-> <<<<9, 9, 9, 255>>, <<9, 9, 9, 50>>, <<9, 9, 9, 51>>, <<9, 9, 9, 0>>>>]

OnSignature == <<5, 5>>

OnImage == <<15, 5>>

\* the pointer positions hit_test is asked about
HitGrid == (2..18) \X (1..9)

\* object opacity and global opacity the scene is loaded with, in 255ths
HitOpacities == {<<0, 0>>, <<3, 140>>, <<255, 255>>}

InitHit ==
    \E scale \in {1000, 3000}, rotate \in {0, 30, 90}, opacity \in HitOpacities :
        AppInit(<<[SignatureRecord EXCEPT !.x = OnSignature[1], !.y = OnSignature[2],
                                          !.scale = scale, !.rotate = rotate,
                                          !.alpha = opacity[1]],
                  [ImageRecord EXCEPT !.x = OnImage[1], !.y = OnImage[2],
                                      !.scale = scale, !.rotate = rotate,
                                      !.alpha = opacity[1],
                                      !.image = HitPicture],
                  LinesRecord(FALSE)>>,
                FALSE, opacity[2], 30, <<0, 0, 0>>)

HitEvents ==
    {Ev("KEY_DOWN", <<0, 0>>, 0, "SPACE", {}, <<0, 0>>)}
    \cup {Ev("KEY_DOWN", <<0, 0>>, 0, "f", {}, cursor) : cursor \in {<<14, 4>>, <<15, 4>>}}
    \cup {Ev("MOUSE_BUTTON_DOWN", pt, 0, "", {}, pt) : pt \in {OnSignature, <<14, 4>>, <<0, 0>>}}
    \cup {Ev("MOUSE_WHEEL", pt, wheel_y, "", {}, pt) :
             pt \in {OnSignature, <<14, 4>>}, wheel_y \in {-1, 1}}
    \cup {Ev("MOUSE_WHEEL", pt, -1, "", {"CTRL"}, pt) : pt \in {OnSignature, <<14, 4>>}}
    \cup {Ev("MOUSE_WHEEL", pt, 1, "", {"SHIFT"}, pt) : pt \in {OnSignature, <<14, 4>>}}

HitEvent ==
    \E ev \in HitEvents :
        /\ Running
        /\ ev.type = "MOUSE_WHEEL" => adjusts < MaxAdjust
        /\ SDL_AppEvent(ev)

HitIterate == Running /\ SDL_AppIterate(ticks, <<0, 0, 0>>)

NextHit == HitEvent \/ HitIterate

SpecHit == InitHit /\ [][NextHit]_vars

\* the rectangle of hit_test written out in thousandths of a pixel, and the
\* point turned back by the object's rotation about its position
C21_Outside(o, pt) ==
    LET q == rotate_point1000(o.pos, pt, -o.rotate)
        left == o.pos[1] * 1000 - o.extent.x * o.scale
        top == o.pos[2] * 1000 - o.extent.y * o.scale
    IN  \/ q[1] < left \/ q[1] > left + o.extent.w * o.scale
        \/ q[2] < top \/ q[2] > top + o.extent.h * o.scale

(* C21: for every object and every point, if the point turned back by the
   object's rotation about its position lies outside the rectangle anchored at
   position - center_offset*scale with size extent*scale, hit_test is false;
   for the line pattern hit_test is false for every point *)
C21_NoHitOutsideTheRectangle ==
    \A i \in 1..Len(screen_objects) : \A pt \in HitGrid :
        (screen_objects[i].kind = "Lines" \/ C21_Outside(screen_objects[i], pt))
            => ~hit_test(screen_objects[i], pt)

\* a rotated, scaled object whose unrotated rectangle would hold a point that
\* the rotated one does not, after a wheel event turned it
C21_Witness ==
    /\ last.op = "event" /\ last.type = "MOUSE_WHEEL" /\ last.handled_by # 0
    /\ \E i \in 1..Len(screen_objects) : \E pt \in HitGrid :
          /\ screen_objects[i].kind = "Image"
          /\ screen_objects[i].rotate \notin {0, 30, 90}
          /\ valid(screen_objects[i])
          /\ C21_Outside(screen_objects[i], pt)
          /\ ~C21_Outside([screen_objects[i] EXCEPT !.rotate = 0], pt)
          /\ ~hit_test(screen_objects[i], pt)

\* column and row of the bitmap under a point of the rectangle, counted from
\* its left and upper side
C22_Column(o, pt) ==
    (rotate_point1000(o.pos, pt, -o.rotate)[1]
        - (o.pos[1] * 1000 - o.extent.x * o.scale)) \div o.scale

C22_Row(o, pt) ==
    (rotate_point1000(o.pos, pt, -o.rotate)[2]
        - (o.pos[2] * 1000 - o.extent.y * o.scale)) \div o.scale

\* alpha of the bitmap pixel in a column and row, the column mirrored when the
\* image is flipped
C22_Alpha(o, column, row) ==
    o.surface.px[row * o.surface.w
                 + (IF o.flip_horizontal THEN o.surface.w - 1 - column ELSE column) + 1][4]

C22_Images == {i \in 1..Len(screen_objects) : screen_objects[i].kind = "Image" /\ valid(screen_objects[i])}

(* C22 as stated: for a valid Image and any point inside its rectangle, the
   right and bottom edges included (where the pixel under the point is the
   last column or row), hit_test is true iff the alpha of that pixel,
   mirrored in x when flipped, is greater than 50 *)
C22_HitIffAlphaAboveThreshold ==
    \A i \in C22_Images : \A pt \in HitGrid :
        ~C21_Outside(screen_objects[i], pt) =>
            (hit_test(screen_objects[i], pt)
                <=> C22_Alpha(screen_objects[i],
                              Min(C22_Column(screen_objects[i], pt), screen_objects[i].surface.w - 1),
                              Min(C22_Row(screen_objects[i], pt), screen_objects[i].surface.h - 1))
                        > 50)

(* C22 amended: for a valid Image and any point inside its rectangle whose
   column and row fall inside the bitmap, hit_test is true iff the alpha of
   that pixel, mirrored in x when flipped, is greater than 50; a point exactly
   on the right or bottom edge of the rectangle is never a hit *)
C22_HitIffAlphaAboveThresholdOffTheEdges ==
    \A i \in C22_Images : \A pt \in HitGrid :
        ~C21_Outside(screen_objects[i], pt) =>
            IF /\ C22_Column(screen_objects[i], pt) < screen_objects[i].surface.w
               /\ C22_Row(screen_objects[i], pt) < screen_objects[i].surface.h
            THEN hit_test(screen_objects[i], pt)
                    <=> C22_Alpha(screen_objects[i], C22_Column(screen_objects[i], pt),
                                  C22_Row(screen_objects[i], pt)) > 50
            ELSE ~hit_test(screen_objects[i], pt)

\* a flipped image after the key f, with a pixel of alpha 51 that is hit, one
\* of alpha 50 that is not, and a point on the right or bottom edge
C22_Witness ==
    /\ last.op = "event" /\ last.type = "KEY_DOWN" /\ last.handled_by # 0
    /\ \E i \in C22_Images :
          /\ screen_objects[i].flip_horizontal
          /\ \E pt \in HitGrid :
                /\ ~C21_Outside(screen_objects[i], pt)
                /\ C22_Column(screen_objects[i], pt) < 2 /\ C22_Row(screen_objects[i], pt) < 2
                /\ C22_Alpha(screen_objects[i], C22_Column(screen_objects[i], pt),
                             C22_Row(screen_objects[i], pt)) = 51
                /\ hit_test(screen_objects[i], pt)
          /\ \E pt \in HitGrid :
                /\ ~C21_Outside(screen_objects[i], pt)
                /\ C22_Column(screen_objects[i], pt) < 2 /\ C22_Row(screen_objects[i], pt) < 2
                /\ C22_Alpha(screen_objects[i], C22_Column(screen_objects[i], pt),
                             C22_Row(screen_objects[i], pt)) = 50
                /\ ~hit_test(screen_objects[i], pt)
          /\ \E pt \in HitGrid :
                /\ ~C21_Outside(screen_objects[i], pt)
                /\ C22_Column(screen_objects[i], pt) = 2
                /\ ~hit_test(screen_objects[i], pt)

-----------------------------------------------------------------------------
(* The family of hatch lines of LineObject::draw.  sa and ca are sin and cos
   times 1000, so the line constant c of -sa*x + ca*y = c and the spacing are
   in thousandths of a pixel *)

\* a boundary test that accepts every crossing of the side's line
crosses_side_anywhere(n, d, lim) == TRUE

\* `x >= 0 && x <= lim` for the float x = n / d
crosses_side(n, d, lim) ==
    IF d > 0 THEN n >= 0 /\ n <= lim * d ELSE n <= 0 /\ n >= lim * d

\* (int)(n / d)
int_of_quotient(n, d) == IF d > 0 THEN TruncDiv(n, d) ELSE TruncDiv(-n, -d)

\* a loop over the line constants that also takes c = c_max
line_constants_to_the_end(c_min, c_max, line_spacing) ==
    [k \in 1..((c_max - c_min) \div line_spacing + 1) |-> c_min + (k - 1) * line_spacing]

\* the values c takes in `for (float c = c_min; c < c_max; c += line_spacing)`
line_constants(c_min, c_max, line_spacing) ==
    [k \in 1..((c_max - c_min + line_spacing - 1) \div line_spacing) |->
        c_min + (k - 1) * line_spacing]

\* the intersections pushed for the line constant c, in the order of the code
intersections(c, sa, ca, wa_width, wa_height) ==
    (IF sa # 0 /\ crosses_side(-c, sa, wa_width)
     THEN <<<<int_of_quotient(-c, sa), 0>>>> ELSE <<>>)
    \o (IF sa # 0 /\ crosses_side(wa_height * ca - c, sa, wa_width)
        THEN <<<<int_of_quotient(wa_height * ca - c, sa), wa_height>>>> ELSE <<>>)
    \o (IF ca # 0 /\ crosses_side(c, ca, wa_height)
        THEN <<<<0, int_of_quotient(c, ca)>>>> ELSE <<>>)
    \o (IF ca # 0 /\ crosses_side(c + wa_width * sa, ca, wa_height)
        THEN <<<<wa_width, int_of_quotient(c + wa_width * sa, ca)>>>> ELSE <<>>)

\* the comparison of std::sort: by x, then by y
point_before(a, b) == IF a[1] # b[1] THEN a[1] < b[1] ELSE a[2] < b[2]

RECURSIVE sort_points(_)
\* std::sort followed by std::unique and erase, on the set of the points
sort_points(S) ==
    IF S = {} THEN <<>>
    ELSE LET first == CHOOSE a \in S : \A b \in S \ {a} : point_before(a, b)
         IN  <<first>> \o sort_points(S \ {first})

\* the segments LineObject::draw renders for a work area: for each line
\* constant with two distinct intersections, the first two after sorting
LineObject_draw(o, wa_width, wa_height) ==
    IF o.width = 0 THEN <<>>
    ELSE
        LET sa == Sin1000(o.line_angle)
            ca == Cos1000(o.line_angle)
            c00 == 0
            c10 == -sa * wa_width
            c01 == ca * wa_height
            c11 == -sa * wa_width + ca * wa_height
            c_min == Min(Min(c00, c10), Min(c01, c11))
            c_max == Max(Max(c00, c10), Max(c01, c11))
            cs == line_constants(c_min, c_max, o.line_spacing)
            found == [k \in 1..Len(cs) |->
                         LET pushed == intersections(cs[k], sa, ca, wa_width, wa_height)
                         IN  IF Len(pushed) >= 2
                             THEN sort_points({pushed[n] : n \in 1..Len(pushed)})
                             ELSE <<>>]
            segment(k) == [c |-> cs[k], p1 |-> found[k][1], p2 |-> found[k][2]]
            RECURSIVE collect(_)
            collect(k) ==
                IF k > Len(cs) THEN <<>>
                ELSE (IF Len(found[k]) >= 2 THEN <<segment(k)>> ELSE <<>>) \o collect(k + 1)
        IN  collect(1)

LineAngles == {0, 5, 45, 130}

LineSpacings == {10000, 15000, 47000}

InitLines ==
    \E line_angle \in LineAngles, line_spacing \in LineSpacings, dashed \in BOOLEAN,
       width \in {0, 1, 2} :
        AppInit(<<[LinesRecord(dashed) EXCEPT !.line_angle = line_angle,
                                              !.line_spacing = line_spacing,
                                              !.width = width]>>,
                FALSE, 140, 30, <<0, 0, 0>>)

LinesEvents ==
    {Ev("KEY_DOWN", <<0, 0>>, 0, key, {}, <<0, 0>>) : key \in {"SPACE", "d", "2"}}
    \cup {Ev("MOUSE_WHEEL", <<0, 0>>, wheel_y, "", mods, <<0, 0>>) :
             wheel_y \in {-1, 1}, mods \in {{"CTRL"}, {"SHIFT"}}}

LinesEvent ==
    \E ev \in LinesEvents :
        /\ Running
        /\ ev.type = "MOUSE_WHEEL" => adjusts < MaxAdjust
        /\ SDL_AppEvent(ev)

LinesIterate ==
    \E dt \in {0, 30} :
        /\ Running
        /\ ticks + dt <= MaxTicks
        /\ SDL_AppIterate(ticks + dt, <<0, 0, 0>>)

NextLines == LinesEvent \/ LinesIterate

SpecLines == InitLines /\ [][NextLines]_vars

\* the line patterns of the scene
LinePatterns == {i \in 1..Len(screen_objects) : screen_objects[i].kind = "Lines"}

(* C23: with angle 0 degrees, a 100 x 100 area and spacing 10, the hatch-line
   generator produces exactly 10 segments, each horizontal and running from
   x = 0 to x = 100 *)
C23_TenFullWidthSegments ==
    \A i \in LinePatterns :
        (/\ screen_objects[i].line_angle = 0
         /\ screen_objects[i].line_spacing = 10000
         /\ screen_objects[i].width # 0)
        => \E segments \in {LineObject_draw(screen_objects[i], 100, 100)} :
              /\ Len(segments) = 10
              /\ \A k \in 1..10 :
                    /\ segments[k].p1[2] = segments[k].p2[2]
                    /\ segments[k].p1[1] = 0
                    /\ segments[k].p2[1] = 100

\* a pattern turned to 0 degrees by the wheel, with spacing 10, whose ten
\* segments lie at y = 0, 10, ..., 90
C23_Witness ==
    /\ last.op = "event" /\ last.type = "MOUSE_WHEEL" /\ last.handled_by # 0
    /\ \E i \in LinePatterns :
          /\ screen_objects[i].line_angle = 0
          /\ screen_objects[i].line_spacing = 10000
          /\ screen_objects[i].width # 0
          /\ Len(LineObject_draw(screen_objects[i], 100, 100)) = 10
          /\ LineObject_draw(screen_objects[i], 100, 100)[10].p1 = <<0, 90>>

\* widths and heights of the work area the generator is asked about
AreaSizes == {1, 7, 60, 100}

\* a point on one of the four sides of the area
C24_OnBoundary(p, wa_width, wa_height) ==
    \/ p[1] \in {0, wa_width} /\ p[2] >= 0 /\ p[2] <= wa_height
    \/ p[2] \in {0, wa_height} /\ p[1] >= 0 /\ p[1] <= wa_width

(* C24: with angle 45 degrees, for every line constant of the family and every
   area size, the two points chosen as segment endpoints (the first two
   distinct intersections after sorting by x, then y) both lie on the boundary
   of the rectangle, never strictly inside it *)
C24_EndpointsOnTheBoundary ==
    \A i \in LinePatterns :
        screen_objects[i].line_angle = 45 =>
            \A wa_width \in AreaSizes, wa_height \in AreaSizes :
                \E segments \in {LineObject_draw(screen_objects[i], wa_width, wa_height)} :
                    \A k \in 1..Len(segments) :
                        /\ C24_OnBoundary(segments[k].p1, wa_width, wa_height)
                        /\ C24_OnBoundary(segments[k].p2, wa_width, wa_height)
                        /\ segments[k].p1 # segments[k].p2

\* a pattern at 45 degrees whose spacing the wheel has changed, with a segment
\* from the left side to the upper side of the 100 x 60 area whose ends are
\* not corners
C24_Witness ==
    /\ last.op = "event" /\ last.type = "MOUSE_WHEEL" /\ last.handled_by # 0
    /\ \E i \in LinePatterns :
          /\ screen_objects[i].line_angle = 45
          /\ screen_objects[i].line_spacing \notin LineSpacings
          /\ \E segments \in {LineObject_draw(screen_objects[i], 100, 60)} :
                \E k \in 1..Len(segments) :
                    /\ segments[k].p1[1] = 0 /\ segments[k].p1[2] \in 1..59
                    /\ segments[k].p2[2] \in {0, 60} /\ segments[k].p2[1] \in 1..99

-----------------------------------------------------------------------------
(* The alpha an object is rendered with.  Opacities are in 255ths; the blend
   img*0.5 + glob*0.8 + 0.1 is kept in 2550ths, where it is a whole number *)

\* BLENDED_ALPHA_FLOAT(img_alpha, glob_alpha), in 2550ths
BLENDED_ALPHA_FLOAT(img_alpha, glob_alpha) ==
    Min(2550, 5 * img_alpha + 8 * glob_alpha + 255)

\* BLENDED_ALPHA_INT(img_alpha, glob_alpha): (int)(blend * 255.f), in 255ths
BLENDED_ALPHA_INT(img_alpha, glob_alpha) ==
    Min(255, TruncDiv(BLENDED_ALPHA_FLOAT(img_alpha, glob_alpha) * 255, 2550))

\* the alpha draw() of an object hands to the renderer, in 2550ths: the
\* texture alpha modulation of a Signature, the vertex colour alpha of an
\* Image or AnimatedGif
render_alpha(o, global_alpha) ==
    CASE o.kind = "Signature" -> 10 * BLENDED_ALPHA_INT(o.alpha, global_alpha)
      [] o.kind \in {"Image", "AnimatedGif"} -> BLENDED_ALPHA_FLOAT(o.alpha, global_alpha)

(* C25: the effective render alpha of a Signature, Image or AnimatedGif is
   min(1, object_opacity*0.5 + global_opacity*0.8 + 0.1): 0.1 for (0,0), 1.0
   for (1,1), and for all opacities in [0,1] it lies in [0.1, 1] and is below
   1 when the object opacity is 0 *)
C25_EffectiveAlphaIsTheBlend ==
    \A i \in 1..Len(screen_objects) :
        (screen_objects[i].kind \in {"Signature", "Image", "AnimatedGif"} /\ valid(screen_objects[i]))
        => \E effective \in {render_alpha(screen_objects[i], alpha)} :
              /\ effective = Min(2550, 5 * screen_objects[i].alpha + 8 * alpha + 255)
              /\ effective >= 255 /\ effective <= 2550
              /\ screen_objects[i].alpha = 0 => effective < 2550
              /\ (screen_objects[i].alpha = 0 /\ alpha = 0) => effective = 255
              /\ (screen_objects[i].alpha = 255 /\ alpha = 255) => effective = 2550

-----------------------------------------------------------------------------
\* an object holds the capture and can answer: layout mode is on, as it was at
\* the button-down, and the object is valid
C26_Dragging == mouse_capture # 0 /\ layout_mode /\ valid(screen_objects[mouse_capture])

(* C26: for a drag on one object (button-down at p0 on an object at position
   a, any number of motions, button-up): the button-down records p0 and the
   offset p0 - a and leaves the position, each motion records its position as
   the last one and leaves offset and position, and after the button-up the
   object's position is p_last - (p0 - a) (p0 if there was no motion, so a
   click leaves the position unchanged), capture is released and
   settings-changed is reported *)
C26_DragCommitsLastPositionMinusOffset ==
    [][\A ev \in MouseEvents :
          EventStep(ev) =>
              /\ (ev.type = "MOUSE_BUTTON_DOWN" /\ layout_mode /\ hits_at(<<ev.x, ev.y>>) # {}) =>
                    \E i \in {SetMin(hits_at(<<ev.x, ev.y>>))} :
                        /\ mouse_capture' = i
                        /\ dragging_origin' = <<ev.x, ev.y>>
                        /\ dragging_offset' = <<ev.x - screen_objects[i].pos[1],
                                                ev.y - screen_objects[i].pos[2]>>
                        /\ screen_objects' = screen_objects
              /\ (ev.type = "MOUSE_MOTION" /\ C26_Dragging) =>
                    /\ mouse_capture' = mouse_capture
                    /\ dragging_origin' = <<ev.x, ev.y>>
                    /\ dragging_offset' = dragging_offset
                    /\ screen_objects' = screen_objects
              /\ (ev.type = "MOUSE_BUTTON_UP" /\ C26_Dragging) =>
                    /\ screen_objects' =
                          [screen_objects EXCEPT ![mouse_capture].pos =
                              <<dragging_origin[1] - dragging_offset[1],
                                dragging_origin[2] - dragging_offset[2]>>]
                    /\ mouse_capture' = 0
                    /\ last'.handled_by = mouse_capture
                    /\ last'.needs_update = UPDATE_SETTINGS_CHANGED]_vars

\* a drag has ended: the button-up was handled by the Signature, which now
\* lies 20 pixels right of where it was loaded, and nothing is captured
C26_Witness ==
    /\ last.op = "event" /\ last.type = "MOUSE_BUTTON_UP"
    /\ last.handled_by # 0 /\ last.needs_update = UPDATE_SETTINGS_CHANGED
    /\ mouse_capture = 0
    /\ screen_objects[last.handled_by].kind = "Signature"
    /\ screen_objects[last.handled_by].pos = <<SignatureRecord.x + 20, SignatureRecord.y>>

(* C27: while an object holds capture, a motion event is handled by that
   object alone, leaves the position of every object and the needs-save flag
   unchanged, reports exactly view-changed, and the next draw renders the
   captured object at cursor minus the recorded offset and every other object
   at its own position *)
C27_CapturedMotionIsAPreview ==
    [][\A ev \in MouseEvents :
          (ev.type = "MOUSE_MOTION" /\ mouse_capture # 0 /\ EventStep(ev)) =>
              /\ last'.handled_by = mouse_capture
              /\ screen_objects' = screen_objects
              /\ is_virgin' = is_virgin
              /\ last'.needs_update = UPDATE_VIEW_CHANGED
              /\ needs_redraw'
              /\ \A i \in 1..Len(screen_objects) :
                    draw'[i].at = IF i = mouse_capture
                                  THEN <<ev.x - dragging_offset[1], ev.y - dragging_offset[2]>>
                                  ELSE screen_objects[i].pos]_vars

-----------------------------------------------------------------------------
(* The input specification: every kind of wheel, key and button event on a
   Signature, an Image and the line pattern, in and outside layout mode *)

InitInput ==
    AppInit(<<SignatureRecord, ImageRecord, LinesRecord(FALSE)>>, FALSE, 140, 30, <<0, 0, 0>>)

InputEvents ==
    {Ev("KEY_DOWN", <<0, 0>>, 0, key, {}, <<25, 5>>) : key \in {"SPACE", "DELETE", "f", "LEFT", "a"}}
    \cup {Ev("KEY_DOWN", <<0, 0>>, 0, key, {}, <<50, 50>>) : key \in {"r", "d", "2"}}
    \cup {Ev("MOUSE_WHEEL", pt, wheel_y, "", mods, pt) :
             pt \in {<<5, 5>>, <<50, 50>>}, wheel_y \in {-1, 1},
             mods \in {{}, {"CTRL"}, {"SHIFT"}}}
    \cup {Ev(type, <<5, 5>>, 0, "", {}, <<5, 5>>) :
             type \in {"MOUSE_BUTTON_DOWN", "MOUSE_BUTTON_UP"}}

InputEvent ==
    \E ev \in InputEvents :
        /\ Running
        /\ (ev.type = "MOUSE_WHEEL" \/ ev.key = "LEFT") => adjusts < MaxAdjust
        /\ SDL_AppEvent(ev)

InputIterate == Running /\ SDL_AppIterate(ticks, <<0, 0, 0>>)

NextInput == InputEvent \/ InputIterate

SpecInput == InitInput /\ [][NextInput]_vars

(* C28: while layout mode is off and no object holds capture, no wheel, key or
   button-down event changes any object's position, scale, rotation, opacity,
   colour, flip or deleted flag, any property of the line pattern, or the
   capture state *)
C28_DisplayOnlyOutsideLayoutMode ==
    [][\A ev \in InputEvents :
          (/\ ev.type \in {"MOUSE_WHEEL", "KEY_DOWN", "MOUSE_BUTTON_DOWN"}
           /\ ~layout_mode /\ mouse_capture = 0
           /\ EventStep(ev))
          => /\ screen_objects' = screen_objects
             /\ mouse_capture' = 0
             /\ dragging_origin' = dragging_origin
             /\ dragging_offset' = dragging_offset
             /\ last'.handled_by = 0]_vars

\* layout mode was left after the objects were changed, and a wheel event then
\* arrived over the Signature and was taken by nobody
C28_Witness ==
    /\ last.op = "event" /\ last.type = "MOUSE_WHEEL" /\ last.handled_by = 0
    /\ ~layout_mode /\ mouse_capture = 0
    /\ adjusts = MaxAdjust
    /\ \E i \in 1..Len(screen_objects) :
          screen_objects[i].kind = "Image" /\ screen_objects[i].flip_horizontal

-----------------------------------------------------------------------------
\* what a wheel notch without Ctrl or Shift makes of the scene when the
\* object i takes it: its opacity moves by 5/255 and stays in [0, 1]
C29_Faded(i, wheel_y) ==
    [screen_objects EXCEPT ![i].alpha = IF wheel_y < 0 THEN Max(0, @ - 5) ELSE Min(255, @ + 5)]

(* C29 as stated: a wheel event without Ctrl or Shift over a hit object, in
   whatever mode the overlay is, changes that object's opacity by exactly
   5/255 in the direction of the wheel sign, clamped to [0,1], and changes
   neither another object's opacity nor the global opacity *)
C29_WheelFadesTheHitObject ==
    [][\A ev \in HitEvents :
          (/\ ev.type = "MOUSE_WHEEL" /\ ev.mods = {}
           /\ hits_at(<<ev.x, ev.y>>) # {}
           /\ EventStep(ev))
          => /\ screen_objects' = C29_Faded(SetMin(hits_at(<<ev.x, ev.y>>)), ev.wheel_y)
             /\ alpha' = alpha]_vars

(* C29 amended: while layout mode is on, a wheel event without Ctrl or Shift
   over a hit object changes the opacity of the first hit object in list
   order by exactly 5/255 in the direction of the wheel sign, clamped to
   [0,1], and changes neither another object nor the global opacity; an
   opacity in [0,1] stays in [0,1]; while layout mode is off the event
   changes no opacity at all *)
C29_WheelFadesTheHitObjectInLayoutMode ==
    [][\A ev \in HitEvents :
          (/\ ev.type = "MOUSE_WHEEL" /\ ev.mods = {}
           /\ hits_at(<<ev.x, ev.y>>) # {}
           /\ EventStep(ev))
          => /\ layout_mode =>
                   /\ screen_objects' = C29_Faded(SetMin(hits_at(<<ev.x, ev.y>>)), ev.wheel_y)
                   /\ last'.handled_by = SetMin(hits_at(<<ev.x, ev.y>>))
                   /\ \A i \in 1..Len(screen_objects) :
                         screen_objects[i].alpha \in 0..255 => screen_objects'[i].alpha \in 0..255
             /\ ~layout_mode => screen_objects' = screen_objects
             /\ alpha' = alpha]_vars

\* the scene loaded with object opacity 3/255 and global opacity 140/255,
\* where a wheel notch down over an object has stopped its opacity at 0
C29_Witness ==
    /\ last.op = "event" /\ last.type = "MOUSE_WHEEL" /\ last.handled_by # 0
    /\ alpha = 140
    /\ screen_objects[last.handled_by].alpha = 0
    /\ \E i \in 1..Len(screen_objects) :
          screen_objects[i].kind \in {"Signature", "Image"} /\ screen_objects[i].alpha = 3

-----------------------------------------------------------------------------
\* the AnimatedGif i has just handled a settings-changed event, on which it
\* invalidates its frame records
C30_JustInvalidated(i) ==
    /\ last.op = "event" /\ last.handled_by = i
    /\ last.needs_update = UPDATE_SETTINGS_CHANGED

(* C30: the decode step reuses a frame's cached texture, leaving the canvas
   untouched, exactly when caching is enabled and that frame has been decoded
   before and not invalidated since; with caching disabled every advance
   performs a full decode and no frame record ever holds a cached texture *)
C30_CachedTextureReusedWhileValid ==
    [][\A i \in 1..Len(screen_objects) :
          (/\ screen_objects[i].kind = "AnimatedGif"
           /\ last'.op = "iterate"
           /\ last'.logs[i].path \in {"cached", "decoded"})
          => /\ last'.logs[i].path = "cached" =>
                   /\ screen_objects[i].cache_frames
                   /\ screen_objects[i].frame_info[last'.logs[i].frame + 1].texture # 0
                   /\ ~C30_JustInvalidated(i)
                   /\ screen_objects'[i].surface = screen_objects[i].surface
             /\ (/\ screen_objects[i].cache_frames
                 /\ screen_objects[i].frame_info[last'.logs[i].frame + 1].texture # 0
                 /\ ~C30_JustInvalidated(i))
                   => last'.logs[i].path = "cached"
             /\ ~screen_objects[i].cache_frames =>
                   /\ last'.logs[i].path = "decoded"
                   /\ \A k \in DOMAIN screen_objects'[i].frame_info :
                         screen_objects'[i].frame_info[k].texture = 0]_vars

-----------------------------------------------------------------------------
\* red, green and blue of the first pixel of the texture a Signature is shown with
C31_Shown(o) == <<o.surface.px[1][1], o.surface.px[1][2], o.surface.px[1][3]>>

\* the Signature that loading the font_color of a record gives
C31_Reloaded(o, hex) ==
    Signature_init(Font, o.pos[1], o.pos[2],
                   hex_color_to_int([match |-> TRUE, digits |-> hex]).v,
                   o.scale, o.rotate, 255, {}).o

(* C31: after a Signature is recoloured with a colour key, the font_color
   written by to_json is the "#RRGGBB" encoding of the colour it is shown in
   (key r gives "#FF0000"), so that reloading the record renders the same
   colour *)
C31_WrittenColourIsShownColour ==
    \A i \in 1..Len(screen_objects) :
        (/\ screen_objects[i].kind = "Signature"
         /\ valid(screen_objects[i])
         /\ ~to_json_throws(screen_objects[i]))
        => \E hex \in {to_json(screen_objects[i]).font_color} :
              /\ hex = C31_Shown(screen_objects[i])
              /\ C31_Shown(C31_Reloaded(screen_objects[i], hex)) = C31_Shown(screen_objects[i])

-----------------------------------------------------------------------------
(* The strokes of LineObject::draw in its surface branch: the dash counter
   that starts each stroke and the loop of draw_line_bresenham, one iteration
   per step.  The stroke being drawn is held in `last` *)

\* dist is uniform over 0..RAND_MAX
RAND_MAX == 32767

\* `int n = 10000`, the loop counter of draw_line_bresenham
LoopLimit == 10000

\* bytes per pixel of an RGBA8888 surface
bpp == 4

\* surface->pixels, the address of the pixel buffer
SurfacePixels == 1048576

\* a % b for ints: the result has the sign of a
IntMod(a, b) == IF a >= 0 THEN a % Abs(b) ELSE -((-a) % Abs(b))

\* (dash_len + 2) / 4
quarter_dash_len(dash_len) == TruncDiv(dash_len + 2, 4)

\* (dist(gen) % max(4, quarter_dash_len)) - quarter_dash_len / 2 when dist(gen)
\* is rnd
jitter(rnd, dash_len) ==
    IntMod(rnd, Max(4, quarter_dash_len(dash_len))) - TruncDiv(quarter_dash_len(dash_len), 2)

\* dashed ? dist(gen) % (dash_len + gap_len) : 0 when dist(gen) is rnd
dash_offset(rnd, dashed, dash_len, gap_len) ==
    IF dashed THEN IntMod(rnd, dash_len + gap_len) ELSE 0

\* the strokes `for (int d = -(width - 1) / 2; d <= width / 2; d++)`
stroke_offsets(width) == (-TruncDiv(width - 1, 2))..TruncDiv(width, 2)

\* y1 >= 0 && y1 < surface->h && x1 >= 0 && x1 < surface->w
inside_surface(x, y, w, h) == y >= 0 /\ y < h /\ x >= 0 /\ x < w

\* the address of pixel (x, y) of a surface whose rows are pitch bytes apart
pixel_address(x, y, pitch) == SurfacePixels + y * pitch + x * bpp

\* an address that is not moved when the stroke steps to another row
step_address_x_only(addr, x_step, y_step, sx, sy, pitch) ==
    IF addr = 0 THEN 0 ELSE addr + (IF x_step THEN sx * bpp ELSE 0)

\* the address after the steps of one iteration: `if (addr) addr += sx * bpp`
\* and `if (addr) addr += sy * pitch`
step_address(addr, x_step, y_step, sx, sy, pitch) ==
    IF addr = 0 THEN 0
    ELSE addr + (IF x_step THEN sx * bpp ELSE 0) + (IF y_step THEN sy * pitch ELSE 0)

\* the state of draw_line_bresenham before its loop, for a surface of w x h
\* pixels
bresenham_begin(x1, y1, dx, dy, dash_len, gap_len, offset, w, h) ==
    [op |-> "stroke", x1 |-> x1, y1 |-> y1,
     sx |-> IF dx >= 0 THEN 1 ELSE -1, sy |-> IF dy >= 0 THEN 1 ELSE -1,
     err |-> dx - dy, dx |-> Abs(dx), dy |-> Abs(dy),
     dash_len |-> dash_len, gap_len |-> gap_len,
     pitch |-> w * bpp, w |-> w, h |-> h,
     addr |-> 0, n |-> LoopLimit, i |-> offset,
     steps |-> 0, returned |-> FALSE, written |-> <<>>, fault |-> FALSE]

\* one test of `while (n--)` and, if it passes, one iteration of the loop.
\* written is <<address, x, y>> of the memcpy of the iteration, <<>> if none
bresenham_step(s) ==
    IF s.n = 0 THEN [s EXCEPT !.n = -1, !.returned = TRUE, !.written = <<>>]
    ELSE
    LET i == s.i + 1
        inside == inside_surface(s.x1, s.y1, s.w, s.h)
        addr == IF inside /\ s.addr = 0 THEN pixel_address(s.x1, s.y1, s.pitch) ELSE s.addr
        e2 == 2 * s.err
        x_step == e2 > -s.dy
        y_step == e2 < s.dx
    IN  IF inside /\ s.gap_len # 0 /\ s.gap_len + s.dash_len = 0
        THEN [s EXCEPT !.n = @ - 1, !.i = i, !.addr = addr, !.steps = @ + 1,
                       !.fault = TRUE, !.returned = TRUE, !.written = <<>>]
        ELSE IF ~inside /\ s.addr # 0
        THEN [s EXCEPT !.n = @ - 1, !.i = i, !.steps = @ + 1, !.returned = TRUE,
                       !.written = <<>>]
        ELSE [s EXCEPT !.n = @ - 1, !.i = i, !.steps = @ + 1,
                       !.written = IF inside /\ (\/ s.gap_len = 0
                                                 \/ IntMod(i, s.gap_len + s.dash_len) < s.dash_len)
                                    THEN <<addr, s.x1, s.y1>> ELSE <<>>,
                       !.err = @ - (IF x_step THEN s.dy ELSE 0) + (IF y_step THEN s.dx ELSE 0),
                       !.x1 = IF x_step THEN @ + s.sx ELSE @,
                       !.y1 = IF y_step THEN @ + s.sy ELSE @,
                       !.addr = step_address(addr, x_step, y_step, s.sx, s.sy, s.pitch)]

\* what dist(gen) returns
RandomDraws == {0, 3, RAND_MAX}

\* persisted Lines records: the default pattern, short and long dashes, a
\* dashed pattern without a gap, one of neither dash nor gap, a solid pattern
StrokeRecords ==
    {LinesRecord(TRUE),
     [LinesRecord(TRUE) EXCEPT !.dashed_len = 1, !.dashed_gap = 3, !.line_angle = 0,
                               !.line_spacing = 47000],
     [LinesRecord(TRUE) EXCEPT !.dashed_len = 6, !.dashed_gap = 2, !.line_angle = 130,
                               !.line_spacing = 47000, !.width = 2],
     [LinesRecord(TRUE) EXCEPT !.dashed_len = 40, !.dashed_gap = 0, !.line_angle = 0,
                               !.line_spacing = 47000, !.width = 3],
     [LinesRecord(TRUE) EXCEPT !.dashed_len = 0, !.dashed_gap = 0],
     LinesRecord(FALSE)}

InitStroke ==
    \E object \in StrokeRecords :
        AppInit(<<object, SignatureRecord>>, FALSE, 140, 30, <<0, 0, 0>>)

\* LineObject::draw, called by draw(app), reaches one stroke of one hatch line
\* and calls draw_line_bresenham for it
StrokeDraw ==
    /\ Running /\ ~hidden
    /\ IF last.op = "stroke" THEN last.returned ELSE TRUE
    /\ \E o \in {screen_objects[n] : n \in LinePatterns} :
          /\ o.width # 0 /\ ~(o.width > 1 /\ ~o.dashed)
          /\ \E segments \in {LineObject_draw(o, work_area.w, work_area.h)} :
             \E k \in 1..Len(segments), d \in stroke_offsets(o.width),
                rnd_offset \in RandomDraws, rnd_jitter \in RandomDraws :
                LET gap_len == IF o.dashed THEN o.dashed_gap ELSE 0
                    p1 == segments[k].p1
                    p2 == segments[k].p2
                    dx == p2[1] - p1[1]
                    dy == p2[2] - p1[2]
                    jit == IF o.dashed THEN jitter(rnd_jitter, o.dashed_len) ELSE 0
                    offset == dash_offset(rnd_offset, o.dashed, o.dashed_len, gap_len)
                IN  last' = [dashed |-> o.dashed, jitter |-> jit]
                            @@ IF Abs(dx) > Abs(dy)
                               THEN bresenham_begin(p1[1], p1[2] + d, dx, dy, o.dashed_len,
                                                    gap_len, offset + jit,
                                                    work_area.w, work_area.h)
                               ELSE bresenham_begin(p1[1] + d, p1[2], dx, dy, o.dashed_len,
                                                    gap_len, offset + jit,
                                                    work_area.w, work_area.h)
    /\ UNCHANGED <<screen_objects, mouse_capture, dragging_origin, dragging_offset,
                   layout_mode, hidden, alpha, is_virgin, needs_redraw, have_animations,
                   idle_ticks, idle_delay_ms, app_quit, ticks, textures, ub, adjusts,
                   event_queue, settings_file>>

\* the next iteration of the loop of draw_line_bresenham
StrokeStep ==
    /\ Running
    /\ last.op = "stroke" /\ ~last.returned
    /\ last' = bresenham_step(last)
    /\ UNCHANGED <<screen_objects, mouse_capture, dragging_origin, dragging_offset,
                   layout_mode, hidden, alpha, is_virgin, needs_redraw, have_animations,
                   idle_ticks, idle_delay_ms, app_quit, ticks, textures, ub, adjusts,
                   event_queue, settings_file>>

NextStroke == StrokeDraw \/ StrokeStep

SpecStroke == InitStroke /\ [][NextStroke]_vars

\* the stroke in progress is that of a dashed pattern
C32_DashedStroke == last.op = "stroke" /\ last.dashed

(* C32: for a dashed line, the jitter added to the dash counter of a stroke is
   at most a quarter of the dash length in absolute value, whatever the dash
   length (>= 1) and the random draw *)
C32_JitterWithinAQuarterOfTheDash ==
    (C32_DashedStroke /\ last.dash_len >= 1) => 4 * Abs(last.jitter) <= last.dash_len

(* C39: LineObject::draw and draw_line_bresenham divide by zero for no
   combination of dashed flag, dash length and gap length that a persisted
   Lines record or the events can give, dashed with dashed_len = dashed_gap = 0
   included *)
C39_NoDivisionByZero ==
    /\ "mod_by_zero" \notin ub
    /\ last.op = "stroke" => ~last.fault

\* the stroke in progress has just written a pixel
C40_Wrote == last.op = "stroke" /\ last.written # <<>>

(* C40: draw_line_bresenham returns after at most 10000 iterations, writes
   only pixels with 0 <= x < surface width and 0 <= y < surface height, and
   whenever it writes, the address it has tracked step by step is the address
   of the current (x, y) *)
C40_BoundedInBoundsAndOnTheAddress ==
    last.op = "stroke" =>
        /\ last.steps <= LoopLimit
        /\ ~last.returned => last.n = LoopLimit - last.steps
        /\ ~last.fault
        /\ C40_Wrote =>
              /\ 0 <= last.written[2] /\ last.written[2] < last.w
              /\ 0 <= last.written[3] /\ last.written[3] < last.h
              /\ last.written[1] = pixel_address(last.written[2], last.written[3], last.pitch)

\* a stroke that runs upwards to the right writes a pixel after twenty
\* iterations, rows and columns away from where it entered the surface
C40_Witness ==
    /\ C40_Wrote
    /\ last.steps >= 20 /\ last.sy = -1 /\ last.dy > 0 /\ last.dx > 0
    /\ last.written[2] > 0 /\ last.written[3] < last.h - 1

\* a stroke that never meets the surface gives up when its counter runs out
C40_GaveUp == last.op = "stroke" /\ last.returned /\ last.steps = LoopLimit /\ last.addr = 0

(* C35: once needs_redraw is set it stays set until draw() runs: no event
   dispatched in between clears it, in particular no key press that nothing
   recognises *)
C35_NoEventClearsARequestedRedraw ==
    [][(needs_redraw /\ last'.op = "event") => needs_redraw']_vars

IsButton(e) == e.type \in {"MOUSE_BUTTON_DOWN", "MOUSE_BUTTON_UP"}

RECURSIVE C36_AheadOfTheButtons(_)
\* the events of the queue q that stand before its first button event
C36_AheadOfTheButtons(q) ==
    IF q = <<>> \/ IsButton(Head(q)) THEN <<>>
    ELSE <<Head(q)>> \o C36_AheadOfTheButtons(Tail(q))

(* C36: motion coalescing keeps the order of motion events relative to the
   button events: a call of SDL_AppEvent with a motion event takes no motion
   event from behind a button-up or button-down, so the dragged object is
   handed a motion that was queued before the next button event, and the
   position a button-up commits is never that of a motion after the release *)
C36_NoMotionOvertakesAButtonEvent ==
    [][(Len(event_queue') < Len(event_queue) /\ IsMotion(Head(event_queue))) =>
          \E ahead \in {SelectSeq(C36_AheadOfTheButtons(event_queue), IsMotion)} :
              /\ Len(event_queue) - Len(event_queue') <= Len(ahead)
              /\ (mouse_capture # 0 /\ last'.handled_by = mouse_capture) =>
                    \E k \in 1..Len(ahead) :
                        dragging_origin' = <<ahead[k].x, ahead[k].y>>]_vars

(* C37: an AnimatedGif that shows frame 0 stays on it, with its timestamp, as
   long as the tick count is below its last-change timestamp (for a freshly
   loaded one the load time plus the stagger) plus the delay of frame 0: the
   elapsed time ticks - latest_ticks is never taken for a large value that
   advances the frame early *)
C37_NoAdvanceBeforeTheDelayHasPassed ==
    [][last'.op = "iterate" =>
          \A i \in 1..Len(screen_objects) :
              LET o == screen_objects[i] IN
              (/\ o.kind = "AnimatedGif" /\ valid(o) /\ o.frame_count > 0
               /\ o.current_frame = 0
               /\ ticks' < o.latest_ticks + o.frame_info[1].delay_ms)
                  => /\ screen_objects'[i].current_frame = 0
                     /\ screen_objects'[i].latest_ticks = o.latest_ticks]_vars

(* C33: over the whole life of an AnimatedGif, teardown included, every
   texture created for it and its canvas surface are destroyed exactly once:
   nothing is destroyed twice, and nothing is left alive once the destructors
   (~AnimatedGif, then ~Image) have run *)
C33_DestroyedExactlyOnce ==
    /\ "texture_destroyed_twice" \notin ub
    /\ "surface_destroyed_twice" \notin ub
    /\ app_quit = "TERMINATED" => textures = {}

(* C34: at any time the number of live textures of one AnimatedGif is at most
   frame_count + 1, with and without caching (the scenes of SpecGif hold one
   AnimatedGif and no other textured object, so all live textures are its) *)
C34_LiveTexturesBounded ==
    \A i \in 1..Len(screen_objects) :
        screen_objects[i].kind = "AnimatedGif"
            => Cardinality(textures) <= screen_objects[i].frame_count + 1

-----------------------------------------------------------------------------
(* Objects that come in while the overlay runs: text and files dropped on the
   window or pasted from the clipboard *)

\* the most objects a scene of SpecAdd grows to
MaxObjects == 4

\* what a drop event or a clipboard entry carries: a text or a path.  ext is
\* the extension of the path in lower case, is_file whether SDL_GetPathInfo
\* finds a file there, image and gif what the file decodes to
DropData(null, ext, is_file, image, gif) ==
    [null |-> null, ext |-> ext, is_file |-> is_file, image |-> image, gif |-> gif]

NoData == DropData(TRUE, "", FALSE, NullSurface, NullGif)

SomeText == DropData(FALSE, "", FALSE, NullSurface, NullGif)

PngFile == DropData(FALSE, ".png", TRUE, Picture, NullGif)

BrokenPngFile == DropData(FALSE, ".png", TRUE, NullSurface, NullGif)

MissingPngFile == DropData(FALSE, ".png", FALSE, NullSurface, NullGif)

GifFile == DropData(FALSE, ".gif", TRUE, NullSurface, GifOneFrame)

TxtFile == DropData(FALSE, ".txt", TRUE, NullSurface, NullGif)

\* screen_objects_add_text on st == [objs, textures, have_animations, added]
screen_objects_add_text(x, y, st) ==
    LET text == Signature_init(Font, x, y, text_font_color, 1000, 0, 255, st.textures)
    IN  [st EXCEPT !.objs = push_back(@, text.o), !.textures = text.textures,
                   !.added = TRUE]

\* screen_objects_add_image on st for the path `data`: [st, result], result
\* being what it returns
screen_objects_add_image(x, y, data, now, stagger, garbage, st) ==
    IF data.ext \notin {".jpg", ".gif", ".bmp", ".png", ".svg"} \/ ~data.is_file
    THEN [st |-> st, result |-> FALSE]
    ELSE IF data.ext = ".gif"
    THEN LET gif == AnimatedGif_init(data.gif, x, y, 1000, 0, FALSE, 255, TRUE, now,
                                     stagger, st.textures, garbage)
         IN  IF ~valid(gif.o) THEN [st |-> st, result |-> FALSE]
             ELSE [st |-> [st EXCEPT !.objs = push_back(@, gif.o),
                                     !.textures = gif.textures,
                                     !.have_animations = TRUE,
                                     !.added = TRUE],
                   result |-> TRUE]
    ELSE LET image == Image_init(data.image, x, y, 1000, 0, FALSE, 255, st.textures)
         IN  IF ~valid(image.o) THEN [st |-> st, result |-> FALSE]
             ELSE [st |-> [st EXCEPT !.objs = push_back(@, image.o),
                                     !.textures = image.textures,
                                     !.added = TRUE],
                   result |-> TRUE]

RECURSIVE clipboard_files(_, _, _, _, _, _)
\* the loop of clipboard_insert over the files of a CF_HDROP clipboard, from
\* file i on
clipboard_files(files, i, now, stagger, garbage, st) ==
    IF i > Len(files) THEN st
    ELSE LET r == screen_objects_add_image(center_x, center_y, files[i], now, stagger,
                                           garbage, st)
         IN  clipboard_files(files, i + 1, now, stagger, garbage,
                 IF r.result THEN r.st
                 ELSE screen_objects_add_text(center_x, center_y, r.st))

\* clipboard_insert for a clipboard that holds a text, or files, or neither
clipboard_insert(clipboard, now, stagger, garbage, st) ==
    IF clipboard.has_text THEN screen_objects_add_text(center_x, center_y, st)
    ELSE clipboard_files(clipboard.files, 1, now, stagger, garbage, st)

\* the branch of SDL_AppEvent that the event ev takes if no object handles it,
\* as far as it adds objects
add_objects(ev, now, stagger, garbage, st) ==
    IF ev.type = "DROP_TEXT"
    THEN IF ev.data.null THEN st ELSE screen_objects_add_text(ev.x, ev.y, st)
    ELSE IF ev.type = "DROP_FILE"
    THEN IF ev.data.null THEN st
         ELSE screen_objects_add_image(ev.x, ev.y, ev.data, now, stagger, garbage, st).st
    ELSE IF ev.type = "KEY_DOWN" /\ ev.key = "v" /\ "CTRL" \in ev.mods
    THEN clipboard_insert(ev.clipboard, now, stagger, garbage, st)
    ELSE st

\* SDL_AppEvent for a drop event or a key press with a clipboard behind it:
\* the objects are offered the event as they are offered any other, and the
\* objects the event brings are added after what the branch of its type does
\* to the flags
SDL_AppEvent_adding(ev, stagger, garbage) ==
    \E line_object \in {find_line_object(screen_objects)} :
    \E d \in {dispatch(1, line_object, ev, Ctx)} :
    \E l \in {IF d.handled_by = 0 /\ line_object # 0
               THEN handle_event(line_object, ev, d.c)
               ELSE NotHandled(d.c)} :
    \E handled_by \in {IF d.handled_by # 0 THEN d.handled_by
                        ELSE IF l.handled THEN line_object ELSE 0} :
    \E needs_update \in {IF d.handled_by # 0 THEN d.needs_update
                          ELSE IF l.handled THEN l.needs_update ELSE 0} :
    \E a \in {event_switch(IF handled_by # 0 THEN "LAST" ELSE ev.type, ev,
                 [needs_redraw |-> report_update(needs_update, needs_redraw, l.c.is_virgin).needs_redraw,
                  is_virgin |-> report_update(needs_update, needs_redraw, l.c.is_virgin).is_virgin,
                  mouse_capture |-> l.c.mouse_capture,
                  alpha |-> alpha,
                  layout_mode |-> layout_mode,
                  hidden |-> hidden,
                  app_quit |-> app_quit])} :
    \E st \in {IF handled_by # 0
                THEN [objs |-> l.c.objs, textures |-> l.c.textures,
                      have_animations |-> have_animations, added |-> FALSE]
                ELSE add_objects(ev, ticks, stagger, garbage,
                         [objs |-> l.c.objs, textures |-> l.c.textures,
                          have_animations |-> have_animations, added |-> FALSE])} :
        /\ screen_objects' = st.objs
        /\ textures' = st.textures
        /\ have_animations' = st.have_animations
        /\ mouse_capture' = a.mouse_capture
        /\ dragging_origin' = l.c.dragging_origin
        /\ dragging_offset' = l.c.dragging_offset
        /\ layout_mode' = a.layout_mode
        /\ hidden' = a.hidden
        /\ alpha' = a.alpha
        /\ is_virgin' = (a.is_virgin /\ ~st.added)
        /\ needs_redraw' = (a.needs_redraw \/ st.added)
        /\ app_quit' = a.app_quit
        /\ ub' = l.c.ub
        /\ last' = [op |-> "event", type |-> ev.type, handled_by |-> handled_by,
                    needs_update |-> needs_update, drained |-> 0,
                    added |-> Len(st.objs) - Len(screen_objects)]
        /\ UNCHANGED <<idle_ticks, idle_delay_ms, ticks, adjusts, event_queue, settings_file>>

\* where things are dropped
DropPoint == <<30, 20>>

AddEv(type, key, mods, data, clipboard) ==
    [data |-> data, clipboard |-> clipboard] @@ Ev(type, DropPoint, 0, key, mods, DropPoint)

NoClipboard == [has_text |-> FALSE, files |-> <<>>]

AddEvents ==
    {AddEv("DROP_TEXT", "", {}, data, NoClipboard) : data \in {SomeText, NoData}}
    \cup {AddEv("DROP_FILE", "", {}, data, NoClipboard) :
             data \in {PngFile, BrokenPngFile, MissingPngFile, GifFile, TxtFile, NoData}}
    \cup {AddEv("KEY_DOWN", "v", {"CTRL"}, NoData, clipboard) :
             clipboard \in {[has_text |-> TRUE, files |-> <<>>],
                            [has_text |-> FALSE, files |-> <<PngFile, TxtFile>>],
                            NoClipboard}}
    \cup {AddEv("KEY_DOWN", key, {}, NoData, NoClipboard) : key \in {"SPACE", "DELETE"}}

\* settings without objects, with a Lines record between two others, and with
\* two Lines records
AddScenes ==
    {<<>>,
     <<SignatureRecord, LinesRecord(FALSE), ImageRecord>>,
     <<LinesRecord(TRUE), [LinesRecord(FALSE) EXCEPT !.width = 2], SignatureRecord>>}

InitAdd == \E objects \in AddScenes : AppInit(objects, FALSE, 140, 30, <<0, 0, 0>>)

AddEvent ==
    \E ev \in AddEvents :
        /\ Running
        /\ SDL_AppEvent_adding(ev, 10, <<0, 0, 0>>)
        /\ Len(screen_objects') <= MaxObjects

AddIterate ==
    \E dt \in {0, 30} :
        /\ Running
        /\ ticks + dt <= MaxTicks
        /\ SDL_AppIterate(ticks + dt, <<0, 0, 0>>)

NextAdd == AddEvent \/ AddIterate

SpecAdd == InitAdd /\ [][NextAdd]_vars

(* C38: after initialisation and any sequence of events, drops, clipboard
   inserts and loaded Lines records, screen_objects holds exactly one
   LineObject and it is the element at index 0, the one SDL_AppIterate takes
   for the idle timer *)
C38_OneLineObjectAtIndexZero ==
    Running =>
        /\ Cardinality(LinePatterns) = 1
        /\ screen_objects[1].kind = "Lines"

\* a scene that was loaded from settings with a Lines record has taken in two
\* objects from the clipboard
C38_Witness ==
    /\ last.op = "event" /\ last.type = "KEY_DOWN" /\ last.added = 2
    /\ Len(screen_objects) = MaxObjects
    /\ screen_objects[1].kind = "Lines" /\ ~screen_objects[1].dashed

====
